---- MODULE Spec2Model ----
(***************************************************************************)
(* Model of the validation engine of vscode-integrator:                    *)
(*   - DevContainerValidator.validateSetup   (gated container pipeline)    *)
(*   - VSCodeIntegrationValidator.testIntegration (editor pipeline)        *)
(*   - DevContainerValidator.parseTestOutput (test output interpreter)     *)
(*   - ValidationUtils (result constructors, validatePort, summary fold)   *)
(*                                                                         *)
(* Captured text is a sequence of tokens.  A token is a record             *)
(* [t |-> kind, n |-> value]: a maximal digit run ("num", with its decimal *)
(* value, which is what parseInt returns for it), a run of blanks ("sp"),  *)
(* a line break ("nl"), a comma, one of the words the regular expressions  *)
(* of parseTestOutput look for, or any other text ("other").               *)
(***************************************************************************)
EXTENDS Integers, Sequences, FiniteSets, TLC

VARIABLES
  pc,                \* position of the modelled call
  config,            \* .devcontainer/devcontainer.json as the file system holds it
  dockerfile,        \* the build script the config references, as the file system holds it
  vscode,            \* the .vscode directory and its documents
  results,           \* const results: ValidationResult[] of the running pipeline
  configOk,          \* configValidation.success
  dockerOk,          \* dockerValidation.success
  buildResult,       \* DockerBuildResult returned by buildContainer
  compilationResult, \* CompilationResult returned by runCompilation
  testResult,        \* TestResult returned by runTests
  testRun,           \* what the container process of runTests did: exit status and stdout
  report,            \* the ValidationReport returned to the caller
  output,            \* the text handed to parseTestOutput
  parsed,            \* what parseTestOutput returned for it
  port,              \* the argument of validatePort
  portError,         \* what validatePort returned for it
  proc,              \* the child process spawned by runDockerCommand and its pending events
  commandResult,     \* the value the promise of runDockerCommand resolved with
  instances,         \* the DevContainerValidator instances and the call each is running
  images,            \* the image tags the Docker daemon holds
  files,             \* .devcontainer/Dockerfile.tmp of each project directory
  setupRun,          \* one call of validateSetup followed invocation by invocation
  gen                \* one run of the generate command and the files of its project

vars == <<pc, config, dockerfile, vscode, results, configOk, dockerOk, buildResult,
          compilationResult, testResult, testRun, report, output, parsed, port, portError,
          proc, commandResult, instances, images, files, setupRun, gen>>

----------------------------------------------------------------------------
(* Bounds of the explored inputs *)

\* largest count written in a generated test summary
MaxCount == 1
\* largest number of text fragments in a generated test output
MaxFrags == 2
\* largest number of entries of a generated forwardPorts list
MaxPorts == 2
\* how far around each limit of validatePort the generated ports reach
PortSpan == 3

None == [none |-> TRUE]

Min(S) == CHOOSE x \in S : \A y \in S : x <= y

----------------------------------------------------------------------------
(* Tokens of captured text *)

Num(k) == [t |-> "num", n |-> k]
Wd(w) == [t |-> w, n |-> 0]
Sp == Wd("sp")
Nl == Wd("nl")
Comma == Wd(",")
Other == Wd("other")

\* \s matches blanks and line breaks
IsWs(tok) == tok.t \in {"sp", "nl"}

\* \s* from position i: the first position that is not white space
RECURSIVE SkipWs(_, _)
SkipWs(s, i) == IF i <= Len(s) /\ IsWs(s[i]) THEN SkipWs(s, i + 1) ELSE i

\* the dot of a regular expression without the s flag matches anything but a
\* line break: positions a..b of s can be consumed by .*?
DotRun(s, a, b) == \A x \in a..b : s[x].t # "nl"

\* (\d+)\s+<w> at position i: the position after the word, 0 when no match
NumWordEnd(s, i, w) ==
  IF i >= 1 /\ i <= Len(s) /\ s[i].t = "num"
  THEN LET j == SkipWs(s, i + 1)
       IN IF j > i + 1 /\ j <= Len(s) /\ s[j].t = w THEN j + 1 ELSE 0
  ELSE 0

\* positions k at which (\d+)\s+<w2> matches after (\d+)\s+<w1> matched at i
\* and .*? consumed what lies between
PairSeconds(s, i, w1, w2) ==
  LET e == NumWordEnd(s, i, w1)
  IN IF e = 0 THEN {}
     ELSE {k \in e..Len(s) : DotRun(s, e, k - 1) /\ NumWordEnd(s, k, w2) # 0}

\* output.match(/(\d+)\s+<w1>.*?(\d+)\s+<w2>/): the leftmost start that
\* matches, and for it the nearest second number (.*? is lazy)
PairMatch(s, w1, w2) ==
  LET starts == {i \in 1..Len(s) : PairSeconds(s, i, w1, w2) # {}}
  IN IF starts = {} THEN None
     ELSE LET i == Min(starts)
              k == Min(PairSeconds(s, i, w1, w2))
          IN [none |-> FALSE, g1 |-> s[i].n, g2 |-> s[k].n]

\* Tests:\s+(\d+)\s+failed,\s+(\d+)\s+passed,\s+(\d+)\s+total at position i
JestAt(s, i) ==
  IF i <= Len(s) /\ s[i].t = "Tests:"
  THEN LET j1 == SkipWs(s, i + 1)
           e1 == NumWordEnd(s, j1, "failed")
           j2 == SkipWs(s, e1 + 1)
           e2 == NumWordEnd(s, j2, "passed")
           j3 == SkipWs(s, e2 + 1)
           e3 == NumWordEnd(s, j3, "total")
       IN IF /\ j1 > i + 1
             /\ e1 # 0 /\ e1 <= Len(s) /\ s[e1].t = "," /\ j2 > e1 + 1
             /\ e2 # 0 /\ e2 <= Len(s) /\ s[e2].t = "," /\ j3 > e2 + 1
             /\ e3 # 0
          THEN [none |-> FALSE, g1 |-> s[j1].n, g2 |-> s[j2].n, g3 |-> s[j3].n]
          ELSE None
  ELSE None

JestMatch(s) ==
  LET starts == {i \in 1..Len(s) : ~JestAt(s, i).none}
  IN IF starts = {} THEN None ELSE JestAt(s, Min(starts))

\* output.match(/PASS|FAIL/g): the matched tokens in text order
GoTokens(s) == SelectSeq(s, LAMBDA tok : tok.t \in {"PASS", "FAIL"})

ZeroCounts == [totalTests |-> 0, passedTests |-> 0, failedTests |-> 0, skippedTests |-> 0]

\* the four probes of parseTestOutput, each applied to the counts c left by
\* the probes before it
JestProbe(s, c) ==
  LET m == JestMatch(s)
  IN IF m.none THEN c
     ELSE [c EXCEPT !.failedTests = m.g1, !.passedTests = m.g2, !.totalTests = m.g3]

MochaProbe(s, c) ==
  LET m == PairMatch(s, "passing", "failing")
  IN IF m.none THEN c
     ELSE [c EXCEPT !.passedTests = m.g1, !.failedTests = m.g2, !.totalTests = m.g1 + m.g2]

PytestProbe(s, c) ==
  LET m == PairMatch(s, "passed", "failed")
  IN IF m.none THEN c
     ELSE [c EXCEPT !.passedTests = m.g1, !.failedTests = m.g2, !.totalTests = m.g1 + m.g2]

CountOf(s, w) == Len(SelectSeq(s, LAMBDA tok : tok.t = w))

GoProbe_CountsFailAsPass(s, c) ==
  LET g == GoTokens(s)
  IN [c EXCEPT !.totalTests = c.totalTests + Len(g),
               !.passedTests = c.passedTests + Len(g)]
GoProbe(s, c) ==
  LET g == GoTokens(s)
  IN [c EXCEPT !.totalTests = c.totalTests + Len(g),
               !.passedTests = c.passedTests + CountOf(g, "PASS"),
               !.failedTests = c.failedTests + (Len(g) - CountOf(g, "PASS"))]

parseTestOutput(s) == GoProbe(s, PytestProbe(s, MochaProbe(s, JestProbe(s, ZeroCounts))))

----------------------------------------------------------------------------
(* ValidationUtils: results, errors, warnings.  A result carries the stage *)
(* it belongs to in place of its message; an absent errors or warnings     *)
(* list is the empty sequence.                                             *)

createSuccessResult(stage) ==
  [stage |-> stage, success |-> TRUE, errors |-> <<>>, warnings |-> <<>>]

createFailureResult(stage, errors, warnings) ==
  [stage |-> stage, success |-> FALSE, errors |-> errors, warnings |-> warnings]

createError(code, message, severity) ==
  [code |-> code, message |-> message, severity |-> severity]

createWarning(code) == [code |-> code]

validatePort_NoUpperLimit(p) ==
  IF p < 1 THEN createError("INVALID_PORT", "Invalid port number", "error")
  ELSE IF p < 1024 THEN createError("PRIVILEGED_PORT", "Port requires elevated privileges", "error")
  ELSE None
\* the ports of the model are integers, so Number.isInteger(port) holds
validatePort(p) ==
  IF p < 1 \/ p > 65535 THEN createError("INVALID_PORT", "Invalid port number", "error")
  ELSE IF p < 1024 THEN createError("PRIVILEGED_PORT", "Port requires elevated privileges", "error")
  ELSE None

RECURSIVE SumLen(_, _)
SumLen(rs, field) ==
  IF rs = <<>> THEN 0 ELSE Len(Head(rs)[field]) + SumLen(Tail(rs), field)

calculateSummary_CountsWarnedResults(rs) ==
  [total |-> Len(rs),
   passed |-> Len(SelectSeq(rs, LAMBDA r : r.success)),
   failed |-> Len(SelectSeq(rs, LAMBDA r : ~r.success)),
   errorCount |-> SumLen(rs, "errors"),
   warningCount |-> Len(SelectSeq(rs, LAMBDA r : r.warnings # <<>>))]
calculateSummary(rs) ==
  [total |-> Len(rs),
   passed |-> Len(SelectSeq(rs, LAMBDA r : r.success)),
   failed |-> Len(SelectSeq(rs, LAMBDA r : ~r.success)),
   errorCount |-> SumLen(rs, "errors"),
   warningCount |-> SumLen(rs, "warnings")]

----------------------------------------------------------------------------
(* devcontainer.json.  exists/parses: what fileExists and readJsonFile     *)
(* find; image, dockerFile, buildDockerfile: whether the field is set;     *)
(* extensions and forwardPorts.kind: "absent" (or falsy), "array", or      *)
(* "other" for a truthy value that is not an array.                        *)

\* config.forwardPorts.forEach(validatePort): the errors in entry order
RECURSIVE PortErrors(_)
PortErrors(ps) ==
  IF ps = <<>> THEN <<>>
  ELSE LET e == validatePort(Head(ps))
       IN (IF e = None THEN <<>> ELSE <<e>>) \o PortErrors(Tail(ps))

\* the message of the exception readJsonFile throws
ReadJsonFailed == "Failed to read JSON file"

HasDockerConfig(cfg) == cfg.image \/ cfg.dockerFile \/ cfg.buildDockerfile

validateDevContainerConfig(cfg) ==
  IF ~cfg.exists
  THEN createFailureResult("config",
         <<createError("DEVCONTAINER_NOT_FOUND", "devcontainer.json file not found",
                       "critical")>>, <<>>)
  ELSE IF ~cfg.parses
  THEN createFailureResult("config",
         <<createError("CONFIG_PARSE_ERROR", ReadJsonFailed, "critical")>>, <<>>)
  ELSE LET required == IF ~HasDockerConfig(cfg)
                       THEN <<createError("NO_DOCKER_CONFIG",
                                           "No Docker configuration found", "critical")>>
                       ELSE <<>>
           extensions == IF cfg.extensions = "other"
                         THEN <<createError("INVALID_EXTENSIONS_FORMAT",
                                             "VSCode extensions must be an array", "error")>>
                         ELSE <<>>
           ports == IF cfg.forwardPorts.kind = "other"
                    THEN <<createError("INVALID_PORTS_FORMAT",
                                        "forwardPorts must be an array", "error")>>
                    ELSE IF cfg.forwardPorts.kind = "array"
                    THEN PortErrors(cfg.forwardPorts.list)
                    ELSE <<>>
           errors == required \o extensions \o ports
       IN IF Len(errors) > 0
          THEN createFailureResult("config", errors, <<>>)
          ELSE createSuccessResult("config")

----------------------------------------------------------------------------
(* Test outputs the interpreter is applied to: fragments of the summary    *)
(* shapes of the known runners, joined by blanks or line breaks            *)

Nums == 0..MaxCount

\* "Tests: 2 failed, 8 passed, 10 total"
JestLine(f, p) ==
  <<Wd("Tests:"), Sp, Num(f), Sp, Wd("failed"), Comma, Sp, Num(p), Sp, Wd("passed"),
    Comma, Sp, Num(f + p), Sp, Wd("total")>>
\* "15 passing (3s)"
MochaPassing(k) == <<Num(k), Sp, Wd("passing"), Sp, Other>>
\* "2 failing"
MochaFailing(k) == <<Num(k), Sp, Wd("failing")>>
\* "8 passed" and "2 failed"
PytestPassed(k) == <<Num(k), Sp, Wd("passed")>>
PytestFailed(k) == <<Num(k), Sp, Wd("failed")>>

Fragments ==
  {JestLine(f, p) : f \in Nums, p \in Nums}
    \cup {MochaPassing(k) : k \in Nums} \cup {MochaFailing(k) : k \in Nums}
    \cup {PytestPassed(k) : k \in Nums} \cup {PytestFailed(k) : k \in Nums}
    \cup {<<Wd("PASS")>>, <<Wd("PASS"), Nl, Wd("PASS")>>, <<Wd("FAIL")>>, <<Other>>,
          <<Wd("PASS"), Nl, Wd("PASS"), Nl, Wd("PASS")>>}

RECURSIVE TextsOf(_)
TextsOf(k) ==
  IF k = 0 THEN {<<>>}
  ELSE IF k = 1 THEN Fragments
  ELSE {t \o <<sep>> \o f : t \in TextsOf(k - 1), sep \in {Sp, Nl}, f \in Fragments}

Texts == UNION {TextsOf(k) : k \in 0..MaxFrags}

----------------------------------------------------------------------------
(* Values of the variables a specification does not use *)

PipelineIdle ==
  /\ config = None /\ dockerfile = None /\ vscode = None
  /\ results = <<>> /\ configOk = FALSE /\ dockerOk = FALSE
  /\ buildResult = None /\ compilationResult = None /\ testResult = None
  /\ testRun = None /\ report = None

ParseIdle == output = <<>> /\ parsed = None

PortIdle == port = 0 /\ portError = None

CommandIdle == proc = None /\ commandResult = None

commandVars == <<proc, commandResult>>

BuildIdle == instances = None /\ images = {} /\ files = None

buildVars == <<instances, images, files>>

RunIdle == setupRun = None

GenerateIdle == gen = None

toolVars == <<setupRun, gen>>

pipelineVars == <<config, dockerfile, vscode, results, configOk, dockerOk, buildResult,
                  compilationResult, testResult, testRun, report>>

----------------------------------------------------------------------------
(* DevContainerValidator: the stages of validateSetup *)

\* what DockerUtils.isDockerAvailable answered
validateDockerEnvironment(dockerAvailable) ==
  IF ~dockerAvailable
  THEN createFailureResult("docker",
         <<createError("DOCKER_NOT_AVAILABLE", "Docker is not installed or not running",
                       "critical")>>, <<>>)
  ELSE createSuccessResult("docker")

ReferencesDockerfile(cfg) == cfg.dockerFile \/ cfg.buildDockerfile

validateDockerfile_KeepsWarnings(cfg, df) ==
  IF ~cfg.exists \/ ~cfg.parses
  THEN createFailureResult("dockerfile",
         <<createError("DOCKERFILE_PARSE_ERROR", ReadJsonFailed, "error")>>, <<>>)
  ELSE IF ~ReferencesDockerfile(cfg)
  THEN createSuccessResult("dockerfile")
  ELSE IF ~df.exists
  THEN createFailureResult("dockerfile",
         <<createError("DOCKERFILE_NOT_FOUND", "Dockerfile not found", "critical")>>, <<>>)
  ELSE [stage |-> "dockerfile", success |-> df.hasFrom,
        errors |-> IF ~df.hasFrom
                   THEN <<createError("NO_BASE_IMAGE",
                                      "Dockerfile must specify a FROM directive", "critical")>>
                   ELSE <<>>,
        warnings |-> IF ~df.hasWorkdir THEN <<createWarning("NO_WORKDIR")>> ELSE <<>>]

\* df: the file at the dockerfilePath the config resolves to; hasFrom and
\* hasWorkdir: whether parseDockerfile finds a FROM and a WORKDIR line
validateDockerfile(cfg, df) ==
  IF ~cfg.exists \/ ~cfg.parses
  THEN createFailureResult("dockerfile",
         <<createError("DOCKERFILE_PARSE_ERROR", ReadJsonFailed, "error")>>, <<>>)
  ELSE IF ~ReferencesDockerfile(cfg)
  THEN createSuccessResult("dockerfile")
  ELSE IF ~df.exists
  THEN createFailureResult("dockerfile",
         <<createError("DOCKERFILE_NOT_FOUND", "Dockerfile not found", "critical")>>, <<>>)
  ELSE LET errors == IF ~df.hasFrom
                     THEN <<createError("NO_BASE_IMAGE",
                                        "Dockerfile must specify a FROM directive",
                                        "critical")>>
                     ELSE <<>>
           warnings == IF ~df.hasWorkdir THEN <<createWarning("NO_WORKDIR")>> ELSE <<>>
       IN IF Len(errors) > 0
          THEN createFailureResult("dockerfile", errors, warnings)
          ELSE createSuccessResult("dockerfile")

\* result.stderr.split('\n').filter(line => line.trim()): k non-blank lines
StderrLines(k) == [i \in 1..k |-> "stderr line"]

\* what a call evaluates to when an exception leaves it
Raised == [raised |-> TRUE]

BuildFailure_Rethrows(errors) == Raised

\* the catch block of buildContainer
BuildFailure(errors) == [success |-> FALSE, imageName |-> FALSE, errors |-> errors]

buildContainer_NoVerification(cfg, df, run) ==
  IF ~run.dockerAvailable
  THEN BuildFailure(<<"Docker is not installed or not running">>)
  ELSE IF ~cfg.exists \/ ~cfg.parses
  THEN BuildFailure(<<ReadJsonFailed>>)
  ELSE IF ~HasDockerConfig(cfg)
  THEN BuildFailure(<<"No Docker configuration found in devcontainer.json">>)
  ELSE IF ReferencesDockerfile(cfg) /\ ~df.exists
  THEN BuildFailure(<<"Dockerfile not found">>)
  ELSE IF ~run.buildOk
  THEN BuildFailure(StderrLines(run.stderrLines) \o <<"Docker build failed">>)
  ELSE [success |-> TRUE, imageName |-> TRUE, errors |-> <<>>]

\* run: what the runtime did during the call (dockerAvailable: the version
\* probe; buildOk: exit code 0 of docker build; stderrLines: non-blank lines
\* it wrote to stderr; imageExists: the answer of the image query)
buildContainer(cfg, df, run) ==
  IF ~run.dockerAvailable
  THEN BuildFailure(<<"Docker is not installed or not running">>)
  ELSE IF ~cfg.exists \/ ~cfg.parses
  THEN BuildFailure(<<ReadJsonFailed>>)
  ELSE IF ~HasDockerConfig(cfg)
  THEN BuildFailure(<<"No Docker configuration found in devcontainer.json">>)
  ELSE IF ReferencesDockerfile(cfg) /\ ~df.exists
  THEN BuildFailure(<<"Dockerfile not found">>)
  ELSE IF ~run.buildOk
  THEN BuildFailure(StderrLines(run.stderrLines) \o <<"Docker build failed">>)
  ELSE IF ~run.imageExists
  THEN BuildFailure(<<"Docker image was not created successfully">>)
  ELSE [success |-> TRUE, imageName |-> TRUE, errors |-> <<>>]

\* line.toLowerCase().includes(marker) for the lines the compiler may print
Includes(line, marker) ==
  CASE line = "Compiled successfully" -> FALSE
    [] line = "main.c:1: error: expected ;" -> marker = "error:"
    [] line = "ERROR in main.c" -> marker = "error "
    [] line = "warning: unused variable" -> marker = "warning:"
    [] line = "WARN: deprecated flag" -> marker = "warn:"
    [] line = "warning: 1 error generated" -> marker \in {"warning:", "error "}
    [] OTHER -> FALSE

IsErrorLine(line) == Includes(line, "error:") \/ Includes(line, "error ")
IsWarningLine(line) ==
  ~IsErrorLine(line) /\ (Includes(line, "warning:") \/ Includes(line, "warn:"))

CompilationFailure(errors) == [success |-> FALSE, errors |-> errors, warnings |-> <<>>]

\* run: imageExists, exitOk (exit code 0), stdout (its lines), stderrLines
runCompilation(run) ==
  IF ~run.imageExists
  THEN CompilationFailure(<<"Container image not found. Please build the container first.">>)
  ELSE LET errors == SelectSeq(run.stdout, IsErrorLine)
           warnings == SelectSeq(run.stdout, IsWarningLine)
       IN IF ~run.exitOk
          THEN CompilationFailure(errors \o StderrLines(run.stderrLines)
                                    \o <<"Compilation failed">>)
          ELSE [success |-> TRUE, errors |-> <<>>, warnings |-> warnings]

TestFailure(errors) ==
  [success |-> FALSE, totalTests |-> 0, passedTests |-> 0, failedTests |-> 0,
   skippedTests |-> 0, errors |-> errors]

\* if (!result.success && testResults.failedTests === 0)
ExecutionFailed(exitOk, counts) == ~exitOk /\ counts.failedTests = 0

\* run: imageExists, exitOk (exit code 0), stdout (token text), stderrLines
runTests(run) ==
  IF ~run.imageExists
  THEN TestFailure(<<"Container image not found. Please build the container first.">>)
  ELSE LET testResults == parseTestOutput(run.stdout)
       IN IF ExecutionFailed(run.exitOk, testResults)
          THEN TestFailure(StderrLines(run.stderrLines) \o <<"Test execution failed">>)
          ELSE [success |-> testResults.failedTests = 0,
                totalTests |-> testResults.totalTests,
                passedTests |-> testResults.passedTests,
                failedTests |-> testResults.failedTests,
                skippedTests |-> testResults.skippedTests,
                errors |-> <<>>]

\* errors?.map((err) => createError(code, err, 'error')) || []
MapErrors(errors, code) == [i \in 1..Len(errors) |-> createError(code, errors[i], "error")]

\* the result validateSetup pushes for a stage that ran in the container
StageResult(stage, code, r) ==
  IF r.success
  THEN createSuccessResult(stage)
  ELSE createFailureResult(stage, MapErrors(r.errors, code), <<>>)

\* the conditions under which validateSetup runs a stage
DockerfileGate_Always(cfgOk) == TRUE
DockerfileGate(cfgOk) == cfgOk
BuildGate_DockerOnly(dkOk, cfgOk) == dkOk
BuildGate(dkOk, cfgOk) == dkOk /\ cfgOk
CompileGate(br) == br.success
TestGate_Always(cr) == TRUE
TestGate(cr) == cr.success

ValidationReport(validator, rs) ==
  LET summary == calculateSummary(rs)
  IN [validator |-> validator,
      results |-> rs,
      summary |-> [totalChecks |-> summary.total, passed |-> summary.passed,
                   failed |-> summary.failed, warnings |-> summary.warningCount]]

----------------------------------------------------------------------------
(* The inputs of validateSetup: the files of the project and what the      *)
(* container runtime does when it is called                                *)

\* largest number of non-blank stderr lines of a container process
MaxStderr == 1

ForwardPortSamples ==
  {[kind |-> "absent", list |-> <<>>], [kind |-> "other", list |-> <<>>],
   [kind |-> "array", list |-> <<>>], [kind |-> "array", list |-> <<8080>>],
   [kind |-> "array", list |-> <<80>>], [kind |-> "array", list |-> <<8080, 70000>>]}

NoPorts == [kind |-> "absent", list |-> <<>>]

MissingConfig ==
  [exists |-> FALSE, parses |-> FALSE, image |-> FALSE, dockerFile |-> FALSE,
   buildDockerfile |-> FALSE, extensions |-> "absent", forwardPorts |-> NoPorts]

MalformedConfig == [MissingConfig EXCEPT !.exists = TRUE]

Configs ==
  {MissingConfig, MalformedConfig}
    \cup [exists : {TRUE}, parses : {TRUE}, image : BOOLEAN, dockerFile : BOOLEAN,
          buildDockerfile : BOOLEAN, extensions : {"absent", "array", "other"},
          forwardPorts : ForwardPortSamples]

NoDockerfile == [exists |-> FALSE, hasFrom |-> FALSE, hasWorkdir |-> FALSE]

Dockerfiles == {NoDockerfile} \cup [exists : {TRUE}, hasFrom : BOOLEAN, hasWorkdir : BOOLEAN]

BuildRuns ==
  [dockerAvailable : BOOLEAN, buildOk : BOOLEAN, stderrLines : 0..MaxStderr,
   imageExists : BOOLEAN]

CompileOutputs ==
  {<<>>, <<"Compiled successfully">>, <<"main.c:1: error: expected ;">>,
   <<"WARN: deprecated flag", "warning: 1 error generated">>,
   <<"warning: unused variable", "ERROR in main.c">>}

CompileRuns ==
  [imageExists : BOOLEAN, exitOk : BOOLEAN, stdout : CompileOutputs,
   stderrLines : 0..MaxStderr]

TestOutputs ==
  {<<>>, <<Other>>, JestLine(1, 2), JestLine(0, 2),
   MochaPassing(2) \o <<Sp>> \o MochaFailing(1),
   MochaPassing(2) \o <<Nl>> \o MochaFailing(1),
   PytestPassed(2) \o <<Comma, Sp>> \o PytestFailed(0),
   <<Wd("PASS"), Nl, Wd("PASS")>>, <<Wd("PASS"), Nl, Wd("FAIL")>>}

TestRuns ==
  [imageExists : BOOLEAN, exitOk : BOOLEAN, stdout : TestOutputs,
   stderrLines : 0..MaxStderr]

InitSetup ==
  /\ pc = "config"
  /\ config \in Configs
  /\ dockerfile \in Dockerfiles
  /\ (~(config.parses /\ ReferencesDockerfile(config))) => dockerfile = NoDockerfile
  /\ vscode = None
  /\ results = <<>> /\ configOk = FALSE /\ dockerOk = FALSE
  /\ buildResult = None /\ compilationResult = None /\ testResult = None
  /\ testRun = None /\ report = None
  /\ ParseIdle /\ PortIdle /\ CommandIdle /\ BuildIdle /\ RunIdle /\ GenerateIdle

otherVars == <<output, parsed, port, portError, proc, commandResult, instances, images, files,
               setupRun, gen>>

\* validateSetup has no try block of its own: an exception that leaves an
\* awaited call leaves validateSetup
Propagate(unchanged) == pc' = "raised" /\ UNCHANGED unchanged

\* Step 1
ConfigStage ==
  /\ pc = "config"
  /\ LET r == validateDevContainerConfig(config)
     IN IF r = Raised THEN Propagate(<<results, configOk>>)
        ELSE /\ results' = Append(results, r)
             /\ configOk' = r.success
             /\ pc' = "docker"
  /\ UNCHANGED <<config, dockerfile, vscode, dockerOk, buildResult, compilationResult,
                 testResult, testRun, report>>
  /\ UNCHANGED otherVars

\* Step 2, and the conditions of steps 3 and 4
DockerStage ==
  /\ pc = "docker"
  /\ \E dockerAvailable \in BOOLEAN :
       LET r == validateDockerEnvironment(dockerAvailable)
       IN IF r = Raised THEN Propagate(<<results, dockerOk>>)
          ELSE /\ results' = Append(results, r)
               /\ dockerOk' = r.success
               /\ pc' = IF DockerfileGate(configOk) THEN "dockerfile"
                        ELSE IF BuildGate(r.success, configOk) THEN "build"
                        ELSE "summary"
  /\ UNCHANGED <<config, dockerfile, vscode, configOk, buildResult, compilationResult,
                 testResult, testRun, report>>
  /\ UNCHANGED otherVars

\* Step 3
DockerfileStage ==
  /\ pc = "dockerfile"
  /\ LET r == validateDockerfile(config, dockerfile)
     IN IF r = Raised THEN Propagate(<<results>>)
        ELSE /\ results' = Append(results, r)
             /\ pc' = IF BuildGate(dockerOk, configOk) THEN "build" ELSE "summary"
  /\ UNCHANGED <<config, dockerfile, vscode, configOk, dockerOk, buildResult,
                 compilationResult, testResult, testRun, report>>
  /\ UNCHANGED otherVars

\* Step 4
BuildStage ==
  /\ pc = "build"
  /\ \E run \in BuildRuns :
       LET r == buildContainer(config, dockerfile, run)
       IN IF r = Raised THEN Propagate(<<results, buildResult>>)
          ELSE /\ buildResult' = r
               /\ results' = Append(results, StageResult("build", "BUILD_ERROR", r))
               /\ pc' = IF CompileGate(r) THEN "compile" ELSE "summary"
  /\ UNCHANGED <<config, dockerfile, vscode, configOk, dockerOk, compilationResult,
                 testResult, testRun, report>>
  /\ UNCHANGED otherVars

\* Step 5
CompileStage ==
  /\ pc = "compile"
  /\ \E run \in CompileRuns :
       LET r == runCompilation(run)
       IN IF r = Raised THEN Propagate(<<results, compilationResult>>)
          ELSE /\ compilationResult' = r
               /\ results' = Append(results, StageResult("compile", "COMPILATION_ERROR", r))
               /\ pc' = IF TestGate(r) THEN "test" ELSE "summary"
  /\ UNCHANGED <<config, dockerfile, vscode, configOk, dockerOk, buildResult,
                 testResult, testRun, report>>
  /\ UNCHANGED otherVars

\* Step 6
TestStage ==
  /\ pc = "test"
  /\ \E run \in TestRuns :
       /\ testRun' = run
       /\ testResult' = runTests(run)
       /\ IF testResult' = Raised THEN Propagate(<<results>>)
          ELSE /\ results' = Append(results, StageResult("test", "TEST_FAILURE", testResult'))
               /\ pc' = "summary"
  /\ UNCHANGED <<config, dockerfile, vscode, configOk, dockerOk, buildResult,
                 compilationResult, report>>
  /\ UNCHANGED otherVars

\* Calculate summary and return the report
ReturnSetupReport ==
  /\ pc = "summary"
  /\ report' = ValidationReport("DevContainerValidator", results)
  /\ pc' = "done"
  /\ UNCHANGED <<config, dockerfile, vscode, results, configOk, dockerOk, buildResult,
                 compilationResult, testResult, testRun>>
  /\ UNCHANGED otherVars

NextSetup ==
  \/ ConfigStage \/ DockerStage \/ DockerfileStage \/ BuildStage
  \/ CompileStage \/ TestStage \/ ReturnSetupReport

----------------------------------------------------------------------------
(* VSCodeIntegrationValidator.  A document is a record: exists and parses  *)
(* are what fileExists and readJsonFile find; an absent string field is    *)
(* ""; a list field has a kind ("absent", "array", or "other" for a truthy *)
(* value that is not an array) and its entries.                            *)

\* /^[A-Z_][A-Z0-9_]*$/ on a name given as the classes of its characters
validateEnvVarName(name) ==
  IF /\ Len(name) > 0
     /\ name[1] \in {"upper", "underscore"}
     /\ \A i \in 1..Len(name) : name[i] \in {"upper", "digit", "underscore"}
  THEN None
  ELSE createError("INVALID_ENV_VAR_NAME", "Invalid environment variable name", "error")

\* the errors a sequence of optional errors holds
RECURSIVE Compact(_)
Compact(es) ==
  IF es = <<>> THEN <<>>
  ELSE (IF Head(es) = None THEN <<>> ELSE <<Head(es)>>) \o Compact(Tail(es))

RECURSIVE Flatten(_)
Flatten(ss) == IF ss = <<>> THEN <<>> ELSE Head(ss) \o Flatten(Tail(ss))

ErrorIf(cond, code, message) ==
  IF cond THEN <<createError(code, message, "error")>> ELSE <<>>

validateLaunchConfiguration(c) ==
  ErrorIf(c.type = "", "MISSING_TYPE", "Configuration must specify a type")
    \o (IF c.request = ""
        THEN ErrorIf(TRUE, "MISSING_REQUEST", "Configuration must specify a request")
        ELSE ErrorIf(c.request \notin {"launch", "attach"}, "INVALID_REQUEST",
                     "Configuration has invalid request type"))
    \o ErrorIf(c.name = "", "MISSING_NAME", "Configuration must have a name")
    \o (IF c.type \in {"node", "node2", "pwa-node"}
        THEN ErrorIf(c.request = "launch" /\ ~c.program, "MISSING_PROGRAM",
                     "Node.js launch configuration must specify a program")
        ELSE IF c.type \in {"chrome", "pwa-chrome", "edge", "pwa-msedge"}
        THEN ErrorIf(c.request = "launch" /\ ~c.url /\ ~c.file, "MISSING_URL_OR_FILE",
                     "Browser launch configuration must specify a URL or file")
        ELSE IF c.type = "python"
        THEN ErrorIf(c.request = "launch" /\ ~c.program /\ ~c.module,
                     "MISSING_PROGRAM_OR_MODULE",
                     "Python launch configuration must specify a program or module")
        ELSE <<>>)
    \o Compact([i \in 1..Len(c.env) |-> validateEnvVarName(c.env[i])])

\* names.filter((name, index) => names.indexOf(name) !== index).length > 0
HasDuplicates(names) ==
  \E i \in 1..Len(names) : \E j \in 1..(i - 1) : names[j] = names[i]

VersionChecks(version, expected, file) ==
  [errors |-> ErrorIf(version = "", "MISSING_VERSION", file),
   warnings |-> IF version # "" /\ version # expected
                THEN <<createWarning("OUTDATED_VERSION")>> ELSE <<>>]

validateLaunchConfig(doc) ==
  IF ~doc.exists THEN createSuccessResult("launch")
  ELSE IF ~doc.parses
  THEN createFailureResult("launch",
         <<createError("LAUNCH_PARSE_ERROR", ReadJsonFailed, "critical")>>, <<>>)
  ELSE LET v == VersionChecks(doc.version, "0.2.0", "launch.json must specify a version")
           l == doc.configurations.list
           entries ==
             IF doc.configurations.kind # "array"
             THEN ErrorIf(TRUE, "MISSING_CONFIGURATIONS",
                          "launch.json must contain a configurations array")
             ELSE Flatten([i \in 1..Len(l) |-> validateLaunchConfiguration(l[i])])
                    \o ErrorIf(HasDuplicates([i \in 1..Len(l) |-> l[i].name]),
                               "DUPLICATE_CONFIG_NAMES", "Duplicate configuration names found")
           errors == v.errors \o entries
       IN IF Len(errors) > 0
          THEN createFailureResult("launch", errors, v.warnings)
          ELSE createSuccessResult("launch")

validateTaskConfiguration(t) ==
  ErrorIf(t.label = "", "MISSING_LABEL", "Task must have a label")
    \o ErrorIf(t.type = "", "MISSING_TYPE", "Task must specify a type")
    \o (IF t.type \in {"shell", "process"}
        THEN ErrorIf(~t.command, "MISSING_COMMAND", "Task must specify a command")
        ELSE IF t.type = "npm"
        THEN ErrorIf(~t.script /\ ~t.path, "MISSING_NPM_SCRIPT", "NPM task must specify a script")
        ELSE <<>>)
    \o ErrorIf(t.group # "" /\ t.group \notin {"build", "test", "none"},
               "INVALID_GROUP", "Task has invalid group")
    \o ErrorIf(t.reveal # "" /\ t.reveal \notin {"always", "never", "silent"},
               "INVALID_PRESENTATION_REVEAL", "Task has invalid presentation.reveal value")
    \o ErrorIf(t.panel # "" /\ t.panel \notin {"shared", "dedicated", "new"},
               "INVALID_PRESENTATION_PANEL", "Task has invalid presentation.panel value")

\* the labels of the tasks, the set taskLabels after the first forEach
TaskLabels(l) == {l[i].label : i \in 1..Len(l)} \ {""}

\* per task: its own errors, then DUPLICATE_TASK_LABEL if an earlier task has its label
TaskErrors(l, i) ==
  validateTaskConfiguration(l[i])
    \o ErrorIf(l[i].label # "" /\ \E j \in 1..(i - 1) : l[j].label = l[i].label,
               "DUPLICATE_TASK_LABEL", "Duplicate task label")

DependencyErrors(l, i) ==
  Flatten([d \in 1..Len(l[i].dependsOn) |->
             ErrorIf(l[i].dependsOn[d] \notin TaskLabels(l), "INVALID_DEPENDENCY",
                     "Task depends on non-existent task")])

validateTasks(doc) ==
  IF ~doc.exists THEN createSuccessResult("tasks")
  ELSE IF ~doc.parses
  THEN createFailureResult("tasks",
         <<createError("TASKS_PARSE_ERROR", ReadJsonFailed, "critical")>>, <<>>)
  ELSE LET v == VersionChecks(doc.version, "2.0.0", "tasks.json must specify a version")
           l == doc.tasks.list
           entries ==
             IF doc.tasks.kind # "array"
             THEN ErrorIf(TRUE, "MISSING_TASKS", "tasks.json must contain a tasks array")
             ELSE Flatten([i \in 1..Len(l) |-> TaskErrors(l, i)])
                    \o Flatten([i \in 1..Len(l) |-> DependencyErrors(l, i)])
           errors == v.errors \o entries
       IN IF Len(errors) > 0
          THEN createFailureResult("tasks", errors, v.warnings)
          ELSE createSuccessResult("tasks")

\* A setting is [key, type, positive, truthy, members]: typeof of the value
\* ("array" for an array), whether a number is > 0, whether the value is
\* truthy, and for an array or object the [type, positive] of its members.
DeprecatedSettings ==
  {"terminal.integrated.shell.windows", "terminal.integrated.shell.linux",
   "terminal.integrated.shell.osx"}

NumericSettings == {"editor.fontSize", "editor.tabSize", "editor.rulers", "editor.lineHeight"}

BooleanSettings ==
  {"editor.wordWrap", "editor.minimap.enabled", "editor.formatOnSave", "editor.formatOnPaste"}

\* bad[i] tells whether member i fails the check of the loop
MemberErrors(bad, code, message) ==
  Flatten([i \in 1..Len(bad) |-> ErrorIf(bad[i], code, message)])

\* the sample keys have no key of the form <numeric setting>.<suffix>
validateEditorSettings(st) ==
  (IF st.key \in NumericSettings
   THEN IF st.key = "editor.rulers"
        THEN IF st.type # "array"
             THEN ErrorIf(TRUE, "INVALID_RULERS", "editor.rulers must be an array of numbers")
             ELSE MemberErrors([i \in 1..Len(st.members) |->
                                 st.members[i].type # "number" \/ ~st.members[i].positive],
                               "INVALID_RULER_VALUE", "editor.rulers[i] must be a positive number")
        ELSE ErrorIf(st.type # "number" \/ ~st.positive, "INVALID_NUMERIC_SETTING",
                     "setting must be a positive number")
   ELSE <<>>)
    \o ErrorIf(st.key \in BooleanSettings /\ st.type # "boolean",
               "INVALID_BOOLEAN_SETTING", "setting must be a boolean")

IsEditorKey(key) == key \in NumericSettings \cup BooleanSettings \cup {"editor.defaultFormatter"}

SettingErrors(st) ==
  (IF st.key = "files.associations" /\ st.type \in {"object", "array"}
   THEN MemberErrors([i \in 1..Len(st.members) |-> st.members[i].type # "string"], "INVALID_FILE_ASSOCIATION",
                     "File association must be a string")
   ELSE <<>>)
    \o (IF st.key \in {"files.exclude", "search.exclude"} /\ st.type \in {"object", "array"}
        THEN MemberErrors([i \in 1..Len(st.members) |-> st.members[i].type # "boolean"], "INVALID_EXCLUDE_PATTERN",
                          "Exclude pattern must have a boolean value")
        ELSE <<>>)
    \o (IF IsEditorKey(st.key) THEN validateEditorSettings(st) ELSE <<>>)

SettingWarnings(st) ==
  IF st.key \in DeprecatedSettings THEN <<createWarning("DEPRECATED_SETTING")>> ELSE <<>>

\* doc.kind: "object", "array", "null" or "other", what the JSON text parses to;
\* doc.hasSlashes: JSON.stringify(settings).includes('//')
validateSettings(doc) ==
  IF ~doc.exists THEN createSuccessResult("settings")
  ELSE IF ~doc.parses
  THEN createFailureResult("settings",
         <<createError("SETTINGS_READ_ERROR", ReadJsonFailed, "critical")>>, <<>>)
  ELSE IF doc.kind # "object"
  THEN createFailureResult("settings",
         <<createError("INVALID_SETTINGS_FORMAT", "settings.json must be a JSON object",
                       "critical")>>, <<>>)
  ELSE LET l == doc.settings
           warnings == (IF doc.hasSlashes THEN <<createWarning("POSSIBLE_COMMENTS")>> ELSE <<>>)
                         \o Flatten([i \in 1..Len(l) |-> SettingWarnings(l[i])])
           errors == Flatten([i \in 1..Len(l) |-> SettingErrors(l[i])])
       IN IF Len(errors) > 0
          THEN createFailureResult("settings", errors, warnings)
          ELSE createSuccessResult("settings")

CrossValidationThrew(message) ==
  createFailureResult("cross", <<createError("CROSS_VALIDATION_ERROR", message, "error")>>, <<>>)

Formatters == {"editor.defaultFormatter", "eslint.format.enable", "prettier.enable"}

ActiveFormatters(l) == {f \in Formatters : \E i \in 1..Len(l) : l[i].key = f /\ l[i].truthy}

\* the message of a MISSING_PRELAUNCH_TASK error
MissingPrelaunchTask(name, task) ==
  "Launch configuration \"" \o name \o "\" references non-existent task \"" \o task \o "\""

performCrossValidation(launch, tasks, settings) ==
  IF launch.exists /\ ~launch.parses THEN CrossValidationThrew(ReadJsonFailed)
  ELSE IF launch.exists /\ tasks.exists /\ ~tasks.parses THEN CrossValidationThrew(ReadJsonFailed)
  ELSE IF launch.exists /\ tasks.exists /\ tasks.tasks.kind = "other"
  THEN CrossValidationThrew("tasksConfig.tasks.forEach is not a function")
  ELSE IF launch.exists /\ launch.configurations.kind = "other"
  THEN CrossValidationThrew("launchConfig.configurations.forEach is not a function")
  ELSE IF settings.exists /\ ~settings.parses THEN CrossValidationThrew(ReadJsonFailed)
  ELSE IF settings.exists /\ settings.kind = "null"
  THEN CrossValidationThrew("Cannot read properties of null")
  ELSE LET taskLabels == IF launch.exists /\ tasks.exists THEN TaskLabels(tasks.tasks.list)
                         ELSE {}
           l == IF launch.exists THEN launch.configurations.list ELSE <<>>
           errors == Flatten([i \in 1..Len(l) |->
                       ErrorIf(l[i].preLaunchTask # "" /\ l[i].preLaunchTask \notin taskLabels,
                               "MISSING_PRELAUNCH_TASK",
                               MissingPrelaunchTask(l[i].name, l[i].preLaunchTask))])
           warnings == IF /\ settings.exists /\ settings.kind = "object"
                          /\ Cardinality(ActiveFormatters(settings.settings)) > 1
                       THEN <<createWarning("MULTIPLE_FORMATTERS")>> ELSE <<>>
       IN IF Len(errors) > 0
          THEN createFailureResult("cross", errors, warnings)
          ELSE createSuccessResult("cross")

\* doc.kind: what extensions.json parses to ("object" or "null")
validateExtensions(doc) ==
  IF ~doc.exists THEN createSuccessResult("extensions")
  ELSE IF ~doc.parses
  THEN createFailureResult("extensions",
         <<createError("EXTENSIONS_PARSE_ERROR", ReadJsonFailed, "error")>>, <<>>)
  ELSE IF doc.kind = "null"
  THEN createFailureResult("extensions",
         <<createError("EXTENSIONS_PARSE_ERROR", "Cannot read properties of null", "error")>>,
         <<>>)
  ELSE createSuccessResult("extensions")

\* Step 1 of testIntegration
checkVscodeDirectory(dirExists) ==
  IF ~dirExists
  THEN createFailureResult("directory",
         <<createError("VSCODE_DIR_MISSING", "No .vscode directory found in project",
                       "critical")>>, <<>>)
  ELSE createSuccessResult("directory")

CrossValidationGate_Always(dirExists) == TRUE

\* the condition of step 5 of testIntegration
CrossValidationGate(dirExists) == dirExists

----------------------------------------------------------------------------
(* The inputs of testIntegration: the documents of the .vscode directory *)

NoList == [kind |-> "absent", list |-> <<>>]
ListOf(l) == [kind |-> "array", list |-> l]

LaunchEntry(type, request, name, program, env, preLaunchTask) ==
  [type |-> type, request |-> request, name |-> name, program |-> program,
   url |-> FALSE, file |-> FALSE, module |-> FALSE, env |-> env,
   preLaunchTask |-> preLaunchTask]

NoLaunch == [exists |-> FALSE, parses |-> FALSE, version |-> "", configurations |-> NoList]

\* NODE_ENV and node_env
UpperName == <<"upper", "upper", "upper", "upper", "underscore", "upper", "upper", "upper">>
LowerName == <<"lower", "lower", "lower", "lower", "underscore", "lower", "lower", "lower">>

LaunchDocs ==
  {NoLaunch,
   [NoLaunch EXCEPT !.exists = TRUE],
   [exists |-> TRUE, parses |-> TRUE, version |-> "0.2.0",
    configurations |-> ListOf(<<LaunchEntry("node", "launch", "Run", TRUE, <<UpperName>>,
                                            "build")>>)],
   [exists |-> TRUE, parses |-> TRUE, version |-> "0.1.0",
    configurations |-> ListOf(<<LaunchEntry("node", "launch", "Run", FALSE, <<LowerName>>,
                                            "lint")>>)],
   [exists |-> TRUE, parses |-> TRUE, version |-> "", configurations |-> NoList],
   [exists |-> TRUE, parses |-> TRUE, version |-> "0.2.0",
    configurations |-> ListOf(<<LaunchEntry("python", "attach", "Debug", FALSE, <<>>, ""),
                                LaunchEntry("chrome", "run", "Debug", FALSE, <<>>, "")>>)]}

Task(label, type, command, group, dependsOn) ==
  [label |-> label, type |-> type, command |-> command, script |-> FALSE, path |-> FALSE,
   group |-> group, reveal |-> "", panel |-> "", dependsOn |-> dependsOn]

NoTasks == [exists |-> FALSE, parses |-> FALSE, version |-> "", tasks |-> NoList]

TaskDocs ==
  {NoTasks,
   [NoTasks EXCEPT !.exists = TRUE],
   [exists |-> TRUE, parses |-> TRUE, version |-> "2.0.0",
    tasks |-> ListOf(<<Task("build", "shell", TRUE, "build", <<>>)>>)],
   [exists |-> TRUE, parses |-> TRUE, version |-> "0.1.0",
    tasks |-> ListOf(<<Task("lint", "npm", FALSE, "deploy", <<"build">>),
                       Task("lint", "", FALSE, "", <<>>)>>)],
   [exists |-> TRUE, parses |-> TRUE, version |-> "2.0.0",
    tasks |-> [kind |-> "other", list |-> <<>>]]}

Setting(key, type, positive, truthy, members) ==
  [key |-> key, type |-> type, positive |-> positive, truthy |-> truthy, members |-> members]

NoSettings ==
  [exists |-> FALSE, parses |-> FALSE, kind |-> "object", hasSlashes |-> FALSE,
   settings |-> <<>>]

SettingsDocs ==
  {NoSettings,
   [NoSettings EXCEPT !.exists = TRUE],
   [NoSettings EXCEPT !.exists = TRUE, !.parses = TRUE, !.kind = "null"],
   [exists |-> TRUE, parses |-> TRUE, kind |-> "object", hasSlashes |-> FALSE,
    settings |-> <<Setting("editor.fontSize", "number", TRUE, TRUE, <<>>),
                   Setting("editor.defaultFormatter", "string", FALSE, TRUE, <<>>),
                   Setting("prettier.enable", "boolean", FALSE, TRUE, <<>>)>>],
   [exists |-> TRUE, parses |-> TRUE, kind |-> "object", hasSlashes |-> TRUE,
    settings |-> <<Setting("terminal.integrated.shell.linux", "string", FALSE, TRUE, <<>>),
                   Setting("editor.tabSize", "number", FALSE, FALSE, <<>>),
                   Setting("editor.rulers", "array", FALSE, TRUE,
                           <<[type |-> "number", positive |-> TRUE],
                             [type |-> "string", positive |-> FALSE]>>),
                   Setting("editor.formatOnSave", "string", FALSE, TRUE, <<>>)>>]}

ExtensionDocs ==
  {[exists |-> FALSE, parses |-> FALSE, kind |-> "object"],
   [exists |-> TRUE, parses |-> FALSE, kind |-> "object"],
   [exists |-> TRUE, parses |-> TRUE, kind |-> "object"],
   [exists |-> TRUE, parses |-> TRUE, kind |-> "null"]}

\* without the directory there are no documents in it
VscodeDirs ==
  [dirExists : {TRUE}, launch : LaunchDocs, tasks : TaskDocs, settings : SettingsDocs,
   extensions : ExtensionDocs]
    \cup {[dirExists |-> FALSE, launch |-> NoLaunch, tasks |-> NoTasks,
           settings |-> NoSettings,
           extensions |-> [exists |-> FALSE, parses |-> FALSE, kind |-> "object"]]}

InitIntegration ==
  /\ pc = "directory"
  /\ vscode \in VscodeDirs
  /\ config = None /\ dockerfile = None
  /\ results = <<>> /\ configOk = FALSE /\ dockerOk = FALSE
  /\ buildResult = None /\ compilationResult = None /\ testResult = None
  /\ testRun = None /\ report = None
  /\ ParseIdle /\ PortIdle /\ CommandIdle /\ BuildIdle /\ RunIdle /\ GenerateIdle

PushResult_Unshift(at, r, next) ==
  /\ pc = at
  /\ IF r = Raised THEN Propagate(<<results>>)
     ELSE results' = <<r>> \o results /\ pc' = next
  /\ UNCHANGED <<config, dockerfile, vscode, configOk, dockerOk, buildResult,
                 compilationResult, testResult, testRun, report>>
  /\ UNCHANGED otherVars

\* a stage of testIntegration: push r and go on to the next stage
PushResult(at, r, next) ==
  /\ pc = at
  /\ IF r = Raised THEN Propagate(<<results>>)
     ELSE results' = Append(results, r) /\ pc' = next
  /\ UNCHANGED <<config, dockerfile, vscode, configOk, dockerOk, buildResult,
                 compilationResult, testResult, testRun, report>>
  /\ UNCHANGED otherVars

DirectoryStage == PushResult("directory", checkVscodeDirectory(vscode.dirExists), "launch")

LaunchStage == PushResult("launch", validateLaunchConfig(vscode.launch), "tasks")

TasksStage == PushResult("tasks", validateTasks(vscode.tasks), "settings")

SettingsStage ==
  PushResult("settings", validateSettings(vscode.settings),
             IF CrossValidationGate(vscode.dirExists) THEN "cross" ELSE "extensions")

CrossValidationStage ==
  PushResult("cross", performCrossValidation(vscode.launch, vscode.tasks, vscode.settings),
             "extensions")

ExtensionsStage ==
  PushResult("extensions", validateExtensions(vscode.extensions), "integrationSummary")

ReturnIntegrationReport ==
  /\ pc = "integrationSummary"
  /\ report' = ValidationReport("VSCodeIntegrationValidator", results)
  /\ pc' = "done"
  /\ UNCHANGED <<config, dockerfile, vscode, results, configOk, dockerOk, buildResult,
                 compilationResult, testResult, testRun>>
  /\ UNCHANGED otherVars

NextIntegration ==
  \/ DirectoryStage \/ LaunchStage \/ TasksStage \/ SettingsStage
  \/ CrossValidationStage \/ ExtensionsStage \/ ReturnIntegrationReport

----------------------------------------------------------------------------
(* Both pipelines: a behaviour is one call of validateSetup or one call of *)
(* testIntegration                                                         *)

Init == InitSetup \/ InitIntegration

Next == NextSetup \/ NextIntegration

Spec == Init /\ [][Next]_vars

----------------------------------------------------------------------------
(* The interpreter applied to every generated text *)

InitParse ==
  /\ pc = "parse"
  /\ output \in Texts
  /\ parsed = None
  /\ PipelineIdle /\ PortIdle /\ CommandIdle /\ BuildIdle /\ RunIdle /\ GenerateIdle

ParseOutput ==
  /\ pc = "parse"
  /\ parsed' = parseTestOutput(output)
  /\ pc' = "parsed"
  /\ UNCHANGED <<output, port, portError>>
  /\ UNCHANGED pipelineVars /\ UNCHANGED commandVars /\ UNCHANGED buildVars /\ UNCHANGED toolVars

NextParse == ParseOutput

SpecParse == InitParse /\ [][NextParse]_vars

----------------------------------------------------------------------------
(* validatePort applied to ports around its limits, and the config stage   *)
(* applied to forwardPorts lists of such ports                             *)

PortValues ==
  UNION {(b - PortSpan)..(b + PortSpan) : b \in {0, 1024, 65535}} \cup {80, 8080, 70000}

PortLists == UNION {[1..k -> PortValues] : k \in 0..MaxPorts}

PortConfigs ==
  {[exists |-> TRUE, parses |-> TRUE, image |-> TRUE, dockerFile |-> FALSE,
    buildDockerfile |-> FALSE, extensions |-> "absent",
    forwardPorts |-> [kind |-> "array", list |-> l]] : l \in PortLists}

InitPort ==
  /\ pc = "port"
  /\ port \in PortValues
  /\ portError = None
  /\ config \in PortConfigs
  /\ dockerfile = None /\ vscode = None
  /\ results = <<>> /\ configOk = FALSE /\ dockerOk = FALSE
  /\ buildResult = None /\ compilationResult = None /\ testResult = None
  /\ testRun = None /\ report = None
  /\ ParseIdle /\ CommandIdle /\ BuildIdle /\ RunIdle /\ GenerateIdle

CallValidatePort ==
  /\ pc = "port"
  /\ portError' = validatePort(port)
  /\ pc' = "configOnly"
  /\ UNCHANGED <<port, output, parsed>>
  /\ UNCHANGED pipelineVars /\ UNCHANGED commandVars /\ UNCHANGED buildVars /\ UNCHANGED toolVars

\* validateDevContainerConfig called on its own
CallValidateConfig ==
  /\ pc = "configOnly"
  /\ LET r == validateDevContainerConfig(config)
     IN /\ results' = <<r>>
        /\ configOk' = r.success
  /\ pc' = "configDone"
  /\ UNCHANGED <<config, dockerfile, vscode, dockerOk, buildResult, compilationResult,
                 testResult, testRun, report, output, parsed, port, portError>>
  /\ UNCHANGED commandVars /\ UNCHANGED buildVars /\ UNCHANGED toolVars

NextPort == CallValidatePort \/ CallValidateConfig

SpecPort == InitPort /\ [][NextPort]_vars

----------------------------------------------------------------------------
(* Which probes of parseTestOutput match a text *)

JestMatched(s) == ~JestMatch(s).none
MochaMatched(s) == ~PairMatch(s, "passing", "failing").none
PytestMatched(s) == ~PairMatch(s, "passed", "failed").none
GoMatched(s) == GoTokens(s) # <<>>

MatchedProbes(s) ==
  {x \in {"jest", "mocha", "pytest", "go"} :
     \/ x = "jest" /\ JestMatched(s)
     \/ x = "mocha" /\ MochaMatched(s)
     \/ x = "pytest" /\ PytestMatched(s)
     \/ x = "go" /\ GoMatched(s)}

\* the counts the last matching probe extracts from s by itself
LastProbeCounts(s) ==
  IF GoMatched(s) THEN
    [totalTests |-> Len(GoTokens(s)), passedTests |-> CountOf(s, "PASS"),
     failedTests |-> CountOf(s, "FAIL"), skippedTests |-> 0]
  ELSE IF PytestMatched(s) THEN PytestProbe(s, ZeroCounts)
  ELSE IF MochaMatched(s) THEN MochaProbe(s, ZeroCounts)
  ELSE JestProbe(s, ZeroCounts)

----------------------------------------------------------------------------
(* Claims about the reports of validateSetup and testIntegration, checked  *)
(* under Spec                                                              *)

SetupDone == pc = "done" /\ report.validator = "DevContainerValidator"
IntegrationDone == pc = "done" /\ report.validator = "VSCodeIntegrationValidator"

\* the stages of a sequence of results
StageNames(rs) == [i \in 1..Len(rs) |-> rs[i].stage]

\* the positions of the results of a stage in a sequence of results
StageAt(rs, stage) == {i \in 1..Len(rs) : rs[i].stage = stage}
HasStage(rs, stage) == StageAt(rs, stage) # {}
StageSucceeded(rs, stage) == \E i \in StageAt(rs, stage) : rs[i].success

HasCritical(r) == \E i \in 1..Len(r.errors) : r.errors[i].severity = "critical"
CriticalResults(rs) == {i \in 1..Len(rs) : HasCritical(rs[i])}

\* C1: every result of a returned report has success false if and only if
\* its errors list is non-empty.
C1_SuccessIffNoErrors ==
  pc = "done" =>
    \A i \in 1..Len(report.results) :
      report.results[i].success = (Len(report.results[i].errors) = 0)

RECURSIVE WarningsUpTo(_, _)
WarningsUpTo(rs, k) ==
  IF k = 0 THEN 0 ELSE Len(rs[k].warnings) + WarningsUpTo(rs, k - 1)

\* C2: in every returned report totalChecks is the number of results,
\* passed + failed is that number, passed counts the successful results and
\* warnings is the sum of the lengths of the results' warnings lists.
C2_SummaryIsFold ==
  pc = "done" =>
    LET rs == report.results
        sm == report.summary
    IN /\ sm.totalChecks = Len(rs)
       /\ sm.passed + sm.failed = Len(rs)
       /\ sm.passed = Cardinality({i \in 1..Len(rs) : rs[i].success})
       /\ sm.warnings = WarningsUpTo(rs, Len(rs))

\* a report with passed and failed results, one of which carries two warnings
C2_Witness ==
  /\ IntegrationDone
  /\ report.summary.passed > 0 /\ report.summary.failed > 0
  /\ \E i \in 1..Len(report.results) : Len(report.results[i].warnings) = 2
  /\ report.summary.warnings > 2

NoDockerConfigDeclared == config.exists /\ config.parses /\ ~HasDockerConfig(config)

NoContainerStages(rs) ==
  ~HasStage(rs, "build") /\ ~HasStage(rs, "compile") /\ ~HasStage(rs, "test")

C5_GatingChain ==
  SetupDone =>
    LET rs == report.results
    IN /\ HasStage(rs, "build")
            <=> (StageSucceeded(rs, "config") /\ StageSucceeded(rs, "docker"))
       /\ HasStage(rs, "compile") <=> StageSucceeded(rs, "build")
       /\ HasStage(rs, "test") <=> StageSucceeded(rs, "compile")
       /\ (buildResult # None) <=> HasStage(rs, "build")
       /\ (compilationResult # None) <=> HasStage(rs, "compile")
       /\ (testResult # None) <=> HasStage(rs, "test")

\* all six stages ran and the tests failed
C5_Witness ==
  /\ SetupDone
  /\ Len(report.results) = 6
  /\ StageSucceeded(report.results, "compile")
  /\ ~StageSucceeded(report.results, "test")

\* C6: runTests fails on account of the exit status only if the process
\* exited non-zero and no probe extracted counts from its stdout; whenever
\* a probe extracted counts, success is (failed = 0) of the extracted counts
\* and the extracted counts are the reported ones.
C6_ExtractedCountsDecide ==
  (testResult # None /\ testRun.imageExists)
    => LET counts == parseTestOutput(testRun.stdout)
           extracted == MatchedProbes(testRun.stdout) # {}
           failedOnExit == \E i \in 1..Len(testResult.errors) :
                              testResult.errors[i] = "Test execution failed"
       IN /\ failedOnExit => (~testRun.exitOk /\ ~extracted)
          /\ extracted =>
               /\ testResult.success = (counts.failedTests = 0)
               /\ testResult.totalTests = counts.totalTests
               /\ testResult.passedTests = counts.passedTests
               /\ testResult.failedTests = counts.failedTests

----------------------------------------------------------------------------
(* Claims about parseTestOutput, checked under SpecParse *)

\* C7: when more than one probe matches the text, the returned counts are
\* exactly those of the probe that matched last (jest, mocha, pytest, token
\* stream in this order); earlier counts are overwritten, not combined.
C7_LastProbeOverwrites ==
  (pc = "parsed" /\ Cardinality(MatchedProbes(output)) > 1)
    => parsed = LastProbeCounts(output)

\* C8: a text "N passing ..." followed by "M failing", on the same line or
\* on the next line, is parsed as passed N, failed M, total N + M.
C8_MochaPairAcrossLines ==
  pc = "parsed" =>
    \A a \in Nums, b \in Nums, sep \in {Sp, Nl} :
      output = MochaPassing(a) \o <<sep>> \o MochaFailing(b)
        => parsed = [totalTests |-> a + b, passedTests |-> a,
                     failedTests |-> b, skippedTests |-> 0]

\* C9: when the PASS/FAIL token stream is the only shape the text matches,
\* total is the number of tokens, passed the number of PASS tokens, failed
\* the number of FAIL tokens and skipped is 0.
C9_TokenStreamCounts ==
  (pc = "parsed" /\ MatchedProbes(output) = {"go"})
    => /\ parsed.totalTests = CountOf(output, "PASS") + CountOf(output, "FAIL")
       /\ parsed.passedTests = CountOf(output, "PASS")
       /\ parsed.failedTests = CountOf(output, "FAIL")
       /\ parsed.skippedTests = 0

\* three PASS and one FAIL give total 4, passed 3, failed 1
C9_Witness ==
  /\ pc = "parsed" /\ MatchedProbes(output) = {"go"}
  /\ CountOf(output, "PASS") = 3 /\ CountOf(output, "FAIL") = 1
  /\ parsed = [totalTests |-> 4, passedTests |-> 3, failedTests |-> 1, skippedTests |-> 0]

----------------------------------------------------------------------------
(* Claims about validatePort, checked under SpecPort *)

PortOutcome(e) ==
  IF e = None THEN "none" ELSE e.code

\* C10: validatePort(p) is an INVALID_PORT error for p < 1 or p > 65535, a
\* PRIVILEGED_PORT error for 1 <= p <= 1023 and no error for
\* 1024 <= p <= 65535, and the config stage fails whenever an entry of
\* forwardPorts yields an error.
C10_PortClasses ==
  /\ pc # "port" =>
       /\ (port < 1 \/ port > 65535) => PortOutcome(portError) = "INVALID_PORT"
       /\ (1 <= port /\ port <= 1023) => PortOutcome(portError) = "PRIVILEGED_PORT"
       /\ (1024 <= port /\ port <= 65535) => PortOutcome(portError) = "none"
  /\ pc = "configDone" =>
       ((\E i \in 1..Len(config.forwardPorts.list) :
            config.forwardPorts.list[i] < 1024 \/ config.forwardPorts.list[i] > 65535)
          => (~results[1].success /\ ~configOk))

\* a list with a valid and an out-of-range port has been rejected
C10_Witness ==
  /\ pc = "configDone"
  /\ config.forwardPorts.list = <<8080, 65536>>
  /\ ~results[1].success
  /\ port = 65536 /\ PortOutcome(portError) = "INVALID_PORT"

----------------------------------------------------------------------------
(* Claims about cross-validation, checked under Spec *)

\* the launch entries whose preLaunchTask is not a label of the task document
\* (a task document that is absent or holds no task array has no label)
DanglingEntries(launch, tasks) ==
  LET l == launch.configurations.list
      labels == IF tasks.exists /\ tasks.parses THEN TaskLabels(tasks.tasks.list) ELSE {}
  IN {i \in 1..Len(l) : l[i].preLaunchTask # "" /\ l[i].preLaunchTask \notin labels}

\* the errors of result r that name launch entry e and its missing task
NamingErrors(r, e) ==
  {k \in 1..Len(r.errors) :
     /\ r.errors[k].code = "MISSING_PRELAUNCH_TASK"
     /\ r.errors[k].message = MissingPrelaunchTask(e.name, e.preLaunchTask)}

\* C11: the cross-validation result holds exactly one error naming each launch
\* entry whose preLaunchTask is not a task label, and no other
\* MISSING_PRELAUNCH_TASK error, whatever the state of the task document.
C11_OneErrorPerDanglingReference ==
  \A c \in StageAt(results, "cross") :
    LET l == vscode.launch.configurations.list
        dangling == DanglingEntries(vscode.launch, vscode.tasks)
    IN /\ \A i \in dangling : Cardinality(NamingErrors(results[c], l[i])) = 1
       /\ Cardinality({k \in 1..Len(results[c].errors) :
                         results[c].errors[k].code = "MISSING_PRELAUNCH_TASK"})
            = Cardinality(dangling)

----------------------------------------------------------------------------
(* DockerUtils.runDockerCommand: the child process emits its events one by  *)
(* one; the listeners accumulate the output and resolve the promise        *)

\* largest exit status of a generated process
MaxExit == 2
\* largest number of data events of a generated process
MaxChunks == 2

\* the code argument of the 'close' listener: a number, or null when the
\* process was ended by a signal
ExitCode(k) == [kind |-> "number", n |-> k]
NullCode == [kind |-> "null", n |-> 0]

\* code === 0
IsZero(code) == code.kind = "number" /\ code.n = 0
\* code || 0
OrZero(code) == IF code.kind = "null" \/ code.n = 0 THEN 0 ELSE code.n

RECURSIVE TrimStart(_)
TrimStart(s) == IF s # <<>> /\ IsWs(Head(s)) THEN TrimStart(Tail(s)) ELSE s

RECURSIVE TrimEnd(_)
TrimEnd(s) ==
  IF s # <<>> /\ IsWs(s[Len(s)]) THEN TrimEnd(SubSeq(s, 1, Len(s) - 1)) ELSE s

\* String.prototype.trim
Trim(s) == TrimEnd(TrimStart(s))

\* the value the 'close' listener resolves with
OnCloseResult(code, stdout, stderr) ==
  [success |-> IsZero(code), stdout |-> Trim(stdout), stderr |-> Trim(stderr),
   exitCode |-> OrZero(code)]

OnErrorResult_ExitCodeOne(message) ==
  [success |-> FALSE, stdout |-> <<>>, stderr |-> message, exitCode |-> 1]

\* the value the 'error' listener resolves with
OnErrorResult(message) ==
  [success |-> FALSE, stdout |-> <<>>, stderr |-> message, exitCode |-> -1]

Resolve_LastWins(value) == commandResult' = value

\* resolve(value): only the first call settles the promise
Resolve(value) == commandResult' = IF commandResult = None THEN value ELSE commandResult

DataEvent(stream, chunk) == [type |-> "data", stream |-> stream, chunk |-> chunk]
CloseEvent(code) == [type |-> "close", code |-> code]
ErrorEvent(message) == [type |-> "error", message |-> message]

Chunks == {<<Other>>, <<Sp, Other, Nl>>, <<Nl>>}

RECURSIVE DataScripts(_)
DataScripts(k) ==
  IF k = 0 THEN {<<>>}
  ELSE DataScripts(k - 1)
         \cup {Append(d, DataEvent(st, c)) :
                 d \in DataScripts(k - 1), st \in {"stdout", "stderr"}, c \in Chunks}

\* "spawn docker ENOENT" and "spawn docker EACCES", with the status libuv gives them
SpawnFailures ==
  {[message |-> <<Wd("spawn docker ENOENT")>>, code |-> ExitCode(-2)],
   [message |-> <<Wd("spawn docker EACCES")>>, code |-> ExitCode(-13)]}

\* how the process ends: it exits with a status, it is ended by a signal, it
\* cannot be spawned ('error' and 'close' in either order, or 'error' alone),
\* or it never ends
EndScripts ==
  {<<CloseEvent(ExitCode(k))>> : k \in 0..MaxExit}
    \cup {<<CloseEvent(NullCode)>>}
    \cup UNION {{<<ErrorEvent(f.message), CloseEvent(f.code)>>,
                 <<CloseEvent(f.code), ErrorEvent(f.message)>>,
                 <<ErrorEvent(f.message)>>} : f \in SpawnFailures}
    \cup {<<>>}

\* a spawn failure delivers no data
ProcessScripts ==
  {d \o e : d \in DataScripts(MaxChunks),
            e \in {x \in EndScripts : x = <<>> \/ (Len(x) = 1 /\ x[1].type = "close")}}
    \cup {e \in EndScripts : e # <<>> /\ (Len(e) = 2 \/ e[1].type = "error")}

InitCommand ==
  /\ pc = "spawn"
  /\ proc = None /\ commandResult = None
  /\ PipelineIdle /\ ParseIdle /\ PortIdle /\ BuildIdle /\ RunIdle /\ GenerateIdle

\* spawn('docker', args, ...) and the registration of the listeners
SpawnDocker ==
  /\ pc = "spawn"
  /\ \E script \in ProcessScripts :
       proc' = [events |-> script, delivered |-> <<>>, stdout |-> <<>>, stderr |-> <<>>,
                spawnFailed |-> \E k \in 1..Len(script) : script[k].type = "error"]
  /\ pc' = "running"
  /\ UNCHANGED <<commandResult, output, parsed, port, portError>>
  /\ UNCHANGED pipelineVars /\ UNCHANGED buildVars /\ UNCHANGED toolVars

NextEvent(type) == pc = "running" /\ proc.events # <<>> /\ Head(proc.events).type = type

OnData ==
  /\ NextEvent("data")
  /\ LET e == Head(proc.events)
     IN proc' = [proc EXCEPT !.events = Tail(@), !.delivered = Append(@, "data"),
                             !.stdout = IF e.stream = "stdout" THEN @ \o e.chunk ELSE @,
                             !.stderr = IF e.stream = "stderr" THEN @ \o e.chunk ELSE @]
  /\ UNCHANGED <<pc, commandResult, output, parsed, port, portError>>
  /\ UNCHANGED pipelineVars /\ UNCHANGED buildVars /\ UNCHANGED toolVars

OnClose ==
  /\ NextEvent("close")
  /\ Resolve(OnCloseResult(Head(proc.events).code, proc.stdout, proc.stderr))
  /\ proc' = [proc EXCEPT !.events = Tail(@), !.delivered = Append(@, "close")]
  /\ UNCHANGED <<pc, output, parsed, port, portError>>
  /\ UNCHANGED pipelineVars /\ UNCHANGED buildVars /\ UNCHANGED toolVars

OnError ==
  /\ NextEvent("error")
  /\ Resolve(OnErrorResult(Head(proc.events).message))
  /\ proc' = [proc EXCEPT !.events = Tail(@), !.delivered = Append(@, "error")]
  /\ UNCHANGED <<pc, output, parsed, port, portError>>
  /\ UNCHANGED pipelineVars /\ UNCHANGED buildVars /\ UNCHANGED toolVars

NextCommand == SpawnDocker \/ OnData \/ OnClose \/ OnError

SpecCommand == InitCommand /\ [][NextCommand]_vars

\* every emitted event is delivered to its listener
SpecCommandLive == SpecCommand /\ WF_vars(NextCommand)

----------------------------------------------------------------------------
(* Claims about runDockerCommand, checked under SpecCommand *)

\* C12: every value runDockerCommand resolves with has success exactly when
\* its exitCode is 0, however the process ended.
C12_SuccessIffExitCodeZero ==
  commandResult # None => (commandResult.success = (commandResult.exitCode = 0))

ErrorDeliveredFirst ==
  proc # None /\ proc.delivered # <<>> /\ Head(proc.delivered) = "error"

C19_InvocationCompletes == <>(commandResult # None)

----------------------------------------------------------------------------
(* DevContainerValidator instances sharing one Docker daemon: the calls of  *)
(* buildContainer and cleanup, interleaved at their awaits                  *)

\* largest number of calls made on one instance
MaxCalls == 2

Ids == {1, 2}

\* resolved project paths, as their segments
Projects == {<<"work", "a", "app">>, <<"work", "b", "app">>, <<"work", "a", "web">>}

\* path.basename
Basename(p) == p[Len(p)]

\* this.imageName of the constructor
ImageName(projectPath) == "devcontainer-" \o Basename(projectPath) \o "-validation"

\* JSON.stringify of a string without characters to escape: the text
\* between double quotes
JsonStringify(text) == <<Wd("\"")>> \o text \o <<Wd("\"")>>

\* `FROM ${config.image}`
FromLine(image) == <<Wd("FROM"), Sp, Wd(image)>>

\* FileUtils.writeJsonFile(dockerfilePath, data): the content it writes
writeJsonFile(data) == [exists |-> TRUE, content |-> JsonStringify(data)]

\* which branch of buildContainer chooses the Dockerfile path
UsesTemporaryDockerfile(cfg) == ~cfg.dockerFile /\ ~cfg.buildDockerfile /\ cfg.image # ""

BuildConfigs ==
  {[image |-> "node:18", dockerFile |-> FALSE, buildDockerfile |-> FALSE],
   [image |-> "python:3", dockerFile |-> FALSE, buildDockerfile |-> FALSE],
   [image |-> "node:18", dockerFile |-> FALSE, buildDockerfile |-> TRUE]}

NoFile == [exists |-> FALSE, content |-> <<>>]
\* what an earlier run for another image left behind
StaleFile == [exists |-> TRUE, content |-> JsonStringify(FromLine("ubuntu:22.04"))]

\* calls: the number of calls made on the instance; previous and last: the
\* outcomes of its two most recent calls
NewInstance(projectPath) ==
  [projectPath |-> projectPath, imageName |-> ImageName(projectPath), at |-> "idle",
   calls |-> 0, previous |-> "", last |-> "", raised |-> FALSE]

\* the second instance validates the project of the first, a project whose
\* directory has the same base name, or one with another base name
InitBuild ==
  /\ pc = "instances"
  /\ \E p \in Projects :
       instances = [i \in Ids |-> NewInstance(IF i = 1 THEN <<"work", "a", "app">> ELSE p)]
  /\ images \in SUBSET {instances[i].imageName : i \in Ids}
  /\ \E tmp \in {NoFile, StaleFile} :
       files \in [Projects -> [config : BuildConfigs, tmp : {tmp}]]
  \* a directory no instance validates plays no part
  /\ \A q \in Projects :
       (\A i \in Ids : instances[i].projectPath # q)
         => files[q].config = [image |-> "node:18", dockerFile |-> FALSE,
                               buildDockerfile |-> FALSE]
  /\ PipelineIdle /\ ParseIdle /\ PortIdle /\ CommandIdle /\ RunIdle /\ GenerateIdle

Goto(i, at) == instances' = [instances EXCEPT ![i].at = at]

\* the call returns: its outcome is recorded on the instance
Return(i, outcome) ==
  instances' = [instances EXCEPT ![i].at = "idle", ![i].calls = @ + 1,
                                 ![i].previous = instances[i].last, ![i].last = outcome]

Unchanged(others) == UNCHANGED others /\ UNCHANGED pc /\ UNCHANGED pipelineVars
                       /\ UNCHANGED <<output, parsed, port, portError>>
                       /\ UNCHANGED commandVars /\ UNCHANGED toolVars

CanCall(i) == instances[i].at = "idle" /\ instances[i].calls < MaxCalls

\* buildContainer up to the choice of the Dockerfile path: the version probe,
\* the read of the config and, for an image-only config, the write of
\* Dockerfile.tmp
PrepareBuild(i) ==
  /\ pc = "instances" /\ CanCall(i)
  /\ LET p == instances[i].projectPath
         cfg == files[p].config
     IN \E dockerAvailable \in BOOLEAN :
          IF ~dockerAvailable
          THEN Return(i, "build failed") /\ UNCHANGED files
          ELSE /\ Goto(i, "dockerfile")
               /\ files' = IF UsesTemporaryDockerfile(cfg)
                           THEN [files EXCEPT ![p].tmp = writeJsonFile(FromLine(cfg.image))]
                           ELSE files
  /\ Unchanged(images)

\* FileUtils.fileExists(dockerfilePath), then DockerUtils.buildImage is issued
StartDockerBuild(i) ==
  /\ pc = "instances" /\ instances[i].at = "dockerfile"
  /\ LET p == instances[i].projectPath
     IN \E dockerfileExists \in BOOLEAN :
          IF (IF UsesTemporaryDockerfile(files[p].config)
              THEN ~files[p].tmp.exists ELSE ~dockerfileExists)
          THEN Return(i, "build failed")
          ELSE Goto(i, "building")
  /\ Unchanged(<<images, files>>)

\* 'docker build -t imageName' ends
FinishDockerBuild(i) ==
  /\ pc = "instances" /\ instances[i].at = "building"
  /\ \E buildOk \in BOOLEAN :
       IF buildOk
       THEN Goto(i, "verify") /\ images' = images \cup {instances[i].imageName}
       ELSE Return(i, "build failed") /\ UNCHANGED images
  /\ Unchanged(files)

\* DockerUtils.imageExists(this.imageName) after the build
VerifyImage(i) ==
  /\ pc = "instances" /\ instances[i].at = "verify"
  /\ \E queryOk \in BOOLEAN :
       Return(i, IF queryOk /\ instances[i].imageName \in images
                 THEN "build succeeded" ELSE "build failed")
  /\ Unchanged(<<images, files>>)

\* whether an exception raised under the try block of cleanup leaves the call
cleanup_NoCatch(threw) == threw

cleanup(threw) == FALSE

\* cleanup up to the answer of DockerUtils.imageExists: the query answers,
\* fails, or an exception is raised under the try block
QueryImage(i) ==
  /\ pc = "instances" /\ CanCall(i)
  /\ \E outcome \in {"answers", "fails", "throws"} :
       IF outcome = "answers" /\ instances[i].imageName \in images
       THEN Goto(i, "remove")
       ELSE instances' =
              [instances EXCEPT ![i].at = "idle", ![i].calls = @ + 1,
                                ![i].previous = instances[i].last,
                                ![i].last = "cleanup: nothing removed",
                                ![i].raised = @ \/ cleanup(outcome = "throws")]
  /\ Unchanged(<<images, files>>)

\* DockerUtils.removeImage(this.imageName): 'docker rmi -f' removes the image,
\* fails, or an exception is raised under the try block
RemoveImage(i) ==
  /\ pc = "instances" /\ instances[i].at = "remove"
  /\ \E outcome \in {"removes", "fails", "throws"} :
       /\ images' = IF outcome = "removes" THEN images \ {instances[i].imageName} ELSE images
       /\ instances' =
            [instances EXCEPT ![i].at = "idle", ![i].calls = @ + 1,
                              ![i].previous = instances[i].last,
                              ![i].last = IF outcome = "removes" THEN "cleanup: removed"
                                          ELSE "cleanup: removal failed",
                              ![i].raised = @ \/ cleanup(outcome = "throws")]
  /\ Unchanged(files)

NextBuild ==
  \E i \in Ids :
    \/ PrepareBuild(i) \/ StartDockerBuild(i) \/ FinishDockerBuild(i) \/ VerifyImage(i)
    \/ QueryImage(i) \/ RemoveImage(i)

SpecBuild == InitBuild /\ [][NextBuild]_vars

----------------------------------------------------------------------------
(* Claims about instances sharing the daemon, checked under SpecBuild *)

\* the call instance i returns from in this step, if any
Returned(i, outcome) ==
  instances'[i].calls = instances[i].calls + 1 /\ instances'[i].last = outcome

\* C14: no call of cleanup raises, whatever calls came before it and whatever
\* the image query and the removal command do, and when the removal command
\* succeeds the image is absent as the call returns.
C14_CleanupNeverRaises ==
  [][\A i \in Ids :
       /\ ~instances'[i].raised
       /\ Returned(i, "cleanup: removed") => instances[i].imageName \notin images']_vars

\* cleanup after a successful build removed the image, and on the other
\* instance a second cleanup followed one whose removal command failed
C14_Witness ==
  /\ instances # None
  /\ instances[1].previous = "build succeeded" /\ instances[1].last = "cleanup: removed"
  /\ instances[2].previous = "cleanup: removal failed"
  /\ instances[2].last = "cleanup: nothing removed"
  /\ \A i \in Ids : ~instances[i].raised

\* C18: no two 'docker build -t <tag>' invocations with the same tag are in
\* flight at once, and instances for different projects have different tags.
C18_NoConcurrentBuildsOnOneTag ==
  instances # None =>
    \A i \in Ids : \A j \in Ids \ {i} :
      /\ ~(/\ instances[i].at = "building" /\ instances[j].at = "building"
           /\ instances[i].imageName = instances[j].imageName)
      /\ instances[i].projectPath # instances[j].projectPath
           => instances[i].imageName # instances[j].imageName

\* C20: Dockerfile.tmp is written only for a config that declares neither
\* dockerFile nor build.dockerfile, and what is written is the base-image line
\* of the declared image, however many times buildContainer runs.
C20_TemporaryDockerfileIsFromLine ==
  [][\A p \in Projects :
       files'[p].tmp # files[p].tmp
         => /\ UsesTemporaryDockerfile(files[p].config)
            /\ files'[p].tmp = [exists |-> TRUE, content |-> FromLine(files[p].config.image)]]_vars

----------------------------------------------------------------------------
(* Claims about exceptions at the stage boundaries, checked under Spec *)

\* the codes the catch blocks of the stages give to a caught exception
CaughtCodes ==
  {"CONFIG_PARSE_ERROR", "DOCKER_CHECK_ERROR", "DOCKERFILE_PARSE_ERROR", "LAUNCH_PARSE_ERROR",
   "TASKS_PARSE_ERROR", "SETTINGS_PARSE_ERROR", "SETTINGS_READ_ERROR",
   "CROSS_VALIDATION_ERROR", "EXTENSIONS_PARSE_ERROR"}

\* the messages of the exceptions the document-reading collaborator and the
\* use of what it returned raise on the generated documents
ExceptionMessages ==
  {ReadJsonFailed, "tasksConfig.tasks.forEach is not a function",
   "launchConfig.configurations.forEach is not a function", "Cannot read properties of null"}

\* C15: a result built from a caught exception is a failure holding exactly
\* one error, of severity critical, whose message is the exception's message.
C15_CaughtExceptionIsOneCriticalError ==
  \A i \in 1..Len(results) :
    (\E k \in 1..Len(results[i].errors) : results[i].errors[k].code \in CaughtCodes)
      => /\ ~results[i].success
         /\ Len(results[i].errors) = 1
         /\ results[i].errors[1].severity = "critical"
         /\ results[i].errors[1].message \in ExceptionMessages

----------------------------------------------------------------------------
(* Claims about the entry points, checked under Spec *)

\* C16: no entry point raises: every call made by validateSetup and
\* testIntegration returns a value, and a finished pipeline has returned a
\* report with one result per stage it ran.
C16_EntryPointsNeverRaise ==
  /\ pc # "raised"
  /\ pc = "done" => report # None /\ report.results = results /\ Len(results) >= 2

\* validateSetup returned a report although the config was readable, the
\* runtime available and the build failed
C16_Witness ==
  /\ SetupDone
  /\ HasStage(report.results, "build") /\ ~StageSucceeded(report.results, "build")
  /\ buildResult = BuildFailure(buildResult.errors)

----------------------------------------------------------------------------
(* Claims about the stages of testIntegration, checked under Spec *)

OneResult(rs, stage) == Cardinality(StageAt(rs, stage)) = 1

----------------------------------------------------------------------------
(* Claims about warnings, checked under Spec *)

HasWarning(r, code) == \E k \in 1..Len(r.warnings) : r.warnings[k].code = code

\* the build-script inspection stage ran on a build script that exists and
\* declares no working directory
InspectedWithoutWorkdir ==
  /\ config.exists /\ config.parses /\ ReferencesDockerfile(config)
  /\ dockerfile.exists /\ ~dockerfile.hasWorkdir
  /\ HasStage(results, "dockerfile")

\* C21: when the referenced build script exists and declares no working
\* directory, the result of the build-script inspection stage carries a
\* NO_WORKDIR warning and the warning is counted in summary.warnings, whether
\* or not the stage also has errors.
C21_MissingWorkdirWarns ==
  (SetupDone /\ InspectedWithoutWorkdir)
    => /\ \A i \in StageAt(report.results, "dockerfile") :
            HasWarning(report.results[i], "NO_WORKDIR")
       /\ report.summary.warnings >= 1

----------------------------------------------------------------------------
(* validateSetup followed invocation by invocation.  The child process of  *)
(* an invocation of runDockerCommand starts when the invocation is issued  *)
(* and ends when it closes; the code that awaits the invocation goes on    *)
(* after that.  A path is the sequence of its segments below the root.     *)

\* path.normalize on segments: "." is dropped, ".." removes the segment before it
RECURSIVE Normalize(_)
Normalize(p) ==
  IF p = <<>> THEN <<>>
  ELSE LET front == Normalize(SubSeq(p, 1, Len(p) - 1))
           seg == p[Len(p)]
       IN IF seg = "." THEN front
          ELSE IF seg = ".." THEN (IF front = <<>> THEN <<>> ELSE SubSeq(front, 1, Len(front) - 1))
          ELSE Append(front, seg)

\* path.join of an absolute path and a relative one
Join(a, b) == Normalize(a \o b)

\* path.dirname
Dirname(p) == IF p = <<>> THEN <<>> ELSE SubSeq(p, 1, Len(p) - 1)

\* this.projectPath and this.devContainerPath of the validated project
ProjectPath == <<"work", "a", "app">>
DevContainerPath == Join(ProjectPath, <<".devcontainer">>)

\* let dockerfilePath of buildContainer
DockerfilePath(cfg) ==
  IF cfg.dockerFile THEN Join(DevContainerPath, cfg.dockerFilePath)
  ELSE IF cfg.buildDockerfile THEN Join(DevContainerPath, cfg.buildDockerfilePath)
  ELSE Join(DevContainerPath, <<"Dockerfile.tmp">>)

\* let buildContext of buildContainer
BuildContext(cfg) ==
  IF ~cfg.dockerFile /\ cfg.buildDockerfile /\ cfg.buildContext # <<>>
  THEN Join(ProjectPath, cfg.buildContext)
  ELSE ProjectPath

\* the arguments DockerUtils.buildImage gives to 'docker build'; buildContext
\* is None when the caller passes none
buildImage(dockerfilePath, imageName, buildContext) ==
  [tag |-> imageName, file |-> dockerfilePath,
   context |-> IF buildContext = None THEN Dirname(dockerfilePath) ELSE buildContext]

\* devcontainer.json documents with the paths they declare (<<>>: not declared)
PathConfig(image, dockerFilePath, buildDockerfilePath, buildContext, forwardPorts) ==
  [exists |-> TRUE, parses |-> TRUE, image |-> image,
   dockerFile |-> dockerFilePath # <<>>, buildDockerfile |-> buildDockerfilePath # <<>>,
   extensions |-> "absent", forwardPorts |-> forwardPorts,
   dockerFilePath |-> dockerFilePath, buildDockerfilePath |-> buildDockerfilePath,
   buildContext |-> buildContext]

Unreadable(cfg) ==
  [exists |-> cfg.exists, parses |-> cfg.parses, image |-> FALSE, dockerFile |-> FALSE,
   buildDockerfile |-> FALSE, extensions |-> "absent", forwardPorts |-> NoPorts,
   dockerFilePath |-> <<>>, buildDockerfilePath |-> <<>>, buildContext |-> <<>>]

RunConfigs ==
  {Unreadable(MissingConfig), Unreadable(MalformedConfig),
   PathConfig(FALSE, <<>>, <<>>, <<>>, NoPorts),
   PathConfig(TRUE, <<>>, <<>>, <<>>, NoPorts),
   PathConfig(TRUE, <<>>, <<>>, <<>>, [kind |-> "array", list |-> <<80>>]),
   PathConfig(FALSE, <<"Dockerfile">>, <<>>, <<>>, NoPorts),
   PathConfig(FALSE, <<"..", "Dockerfile">>, <<>>, <<>>, NoPorts),
   PathConfig(FALSE, <<"Dockerfile">>, <<>>, <<"docker">>, NoPorts),
   PathConfig(FALSE, <<>>, <<"Dockerfile">>, <<>>, NoPorts),
   PathConfig(FALSE, <<>>, <<"docker", "Dockerfile">>, <<"..">>, NoPorts),
   PathConfig(TRUE, <<>>, <<"Dockerfile">>, <<".">>, NoPorts)}

\* what a child process does: ok (exit code 0; for 'docker images', an image
\* is listed as well), parses (its stdout is JSON), its stdout lines and the
\* number of its non-blank stderr lines
Answer(ok, parses, stdout, stderrLines) ==
  [ok |-> ok, parses |-> parses, stdout |-> stdout, stderrLines |-> stderrLines]

NoAnswer == Answer(FALSE, FALSE, <<>>, 0)

Answers(stage, command) ==
  IF command = "version --format json"
  THEN {Answer(ok, parses, <<>>, 0) : ok \in BOOLEAN, parses \in BOOLEAN}
  ELSE IF command = "build"
  THEN {Answer(ok, FALSE, <<>>, k) : ok \in BOOLEAN, k \in 0..MaxStderr}
  ELSE IF command = "run"
  THEN {Answer(ok, FALSE, out, k) :
          ok \in BOOLEAN, k \in 0..MaxStderr,
          out \in IF stage = "compile" THEN CompileOutputs ELSE TestOutputs}
  ELSE {Answer(ok, FALSE, <<>>, 0) : ok \in BOOLEAN}

InitRun ==
  /\ pc = "run"
  /\ \E cfg \in RunConfigs, df \in Dockerfiles :
       /\ (~ReferencesDockerfile(cfg)) => df = NoDockerfile
       /\ setupRun = [config |-> cfg, dockerfile |-> df, at |-> <<"config", "enter">>,
                      issued |-> <<>>, results |-> <<>>, configOk |-> FALSE,
                      dockerOk |-> FALSE, buildResult |-> None,
                      compilationResult |-> None, testResult |-> None, report |-> None]
  /\ PipelineIdle /\ ParseIdle /\ PortIdle /\ CommandIdle /\ BuildIdle /\ GenerateIdle

\* the invocations whose child process has not ended
InFlight(r) == {i \in 1..Len(r.issued) : ~r.issued[i].ended}

LastIssued(r) == r.issued[Len(r.issued)]

\* the answer of the first invocation of a command a stage issued
StageAnswer(r, stage, command) ==
  LET S == {i \in 1..Len(r.issued) :
              r.issued[i].stage = stage /\ r.issued[i].command = command}
  IN IF S = {} THEN NoAnswer ELSE r.issued[Min(S)].answer

Awaits_BuildDetached(command) == command # "build"

\* whether the code awaits the promise of an invocation before it goes on
Awaits(command) == TRUE

\* the command a step of a stage runs
CommandOf(stage, step) ==
  IF step \in {"version", "fallback"} THEN "--version"
  ELSE IF step = "info" THEN "version --format json"
  ELSE step

ArgsOf(cfg, step) ==
  IF step = "build"
  THEN buildImage(DockerfilePath(cfg), ImageName(ProjectPath), BuildContext(cfg))
  ELSE [tag |-> ImageName(ProjectPath), file |-> <<>>, context |-> <<>>]

\* runDockerCommand: spawn the child process; answer is what it will do
Issue(r, stage, step, answer) ==
  [r EXCEPT !.at = <<stage, step>>,
            !.issued = Append(@, [stage |-> stage, command |-> CommandOf(stage, step),
                                  args |-> ArgsOf(r.config, step), answer |-> answer,
                                  ended |-> FALSE, pushed |-> StageNames(r.results)])]

\* the first invocation of a stage
FirstStep(stage) == IF stage \in {"docker", "build"} THEN "version" ELSE "images"

\* what the code does with the answer it awaited: the next step of the stage,
\* or "return" when the stage returns its result
FollowUp(r) ==
  LET stage == r.at[1]
      step == r.at[2]
      a == LastIssued(r).answer
  IN IF stage = "docker"
     THEN (IF step = "version" /\ a.ok THEN "info"
           ELSE IF step = "info" /\ a.ok /\ ~a.parses THEN "fallback"
           ELSE "return")
     ELSE IF stage = "build"
     THEN (IF /\ step = "version" /\ a.ok
              /\ ~(ReferencesDockerfile(r.config) /\ ~r.dockerfile.exists)
           THEN "build"
           ELSE IF step = "build" /\ a.ok THEN "images"
           ELSE "return")
     ELSE IF step = "images" /\ a.ok THEN "run" ELSE "return"

\* the value the call of a stage returns, from what its invocations answered
StageReturn(r, stage) ==
  IF stage = "docker" THEN validateDockerEnvironment(StageAnswer(r, stage, "--version").ok)
  ELSE IF stage = "build"
  THEN buildContainer(r.config, r.dockerfile,
                      [dockerAvailable |-> StageAnswer(r, stage, "--version").ok,
                       buildOk |-> StageAnswer(r, stage, "build").ok,
                       stderrLines |-> StageAnswer(r, stage, "build").stderrLines,
                       imageExists |-> StageAnswer(r, stage, "images").ok])
  ELSE LET run == [imageExists |-> StageAnswer(r, stage, "images").ok,
                   exitOk |-> StageAnswer(r, stage, "run").ok,
                   stdout |-> StageAnswer(r, stage, "run").stdout,
                   stderrLines |-> StageAnswer(r, stage, "run").stderrLines]
       IN IF stage = "compile" THEN runCompilation(run) ELSE runTests(run)

\* results.push of a stage and the conditions of the stages after it
Pushed(r, stage, value) ==
  LET result == IF stage = "build" THEN StageResult("build", "BUILD_ERROR", value)
                ELSE IF stage = "compile" THEN StageResult("compile", "COMPILATION_ERROR", value)
                ELSE IF stage = "test" THEN StageResult("test", "TEST_FAILURE", value)
                ELSE value
      cfgOk == IF stage = "config" THEN value.success ELSE r.configOk
      dkOk == IF stage = "docker" THEN value.success ELSE r.dockerOk
      next == IF stage = "config" THEN "docker"
              ELSE IF stage = "docker" /\ DockerfileGate(cfgOk) THEN "dockerfile"
              ELSE IF stage \in {"docker", "dockerfile"}
              THEN (IF BuildGate(dkOk, cfgOk) THEN "build" ELSE "summary")
              ELSE IF stage = "build" THEN (IF CompileGate(value) THEN "compile" ELSE "summary")
              ELSE IF stage = "compile" THEN (IF TestGate(value) THEN "test" ELSE "summary")
              ELSE "summary"
  IN [r EXCEPT !.results = Append(@, result),
               !.configOk = cfgOk, !.dockerOk = dkOk,
               !.buildResult = IF stage = "build" THEN value ELSE @,
               !.compilationResult = IF stage = "compile" THEN value ELSE @,
               !.testResult = IF stage = "test" THEN value ELSE @,
               !.at = <<next, "enter">>]

RunUnchanged ==
  /\ UNCHANGED <<pc, gen>> /\ UNCHANGED pipelineVars
  /\ UNCHANGED <<output, parsed, port, portError>>
  /\ UNCHANGED commandVars /\ UNCHANGED buildVars

\* steps 1 and 3 of validateSetup: stages that read files and spawn nothing
RunFileStage ==
  /\ pc = "run" /\ setupRun.at \in {<<"config", "enter">>, <<"dockerfile", "enter">>}
  /\ setupRun' =
       Pushed(setupRun, setupRun.at[1],
              IF setupRun.at[1] = "config" THEN validateDevContainerConfig(setupRun.config)
              ELSE validateDockerfile(setupRun.config, setupRun.dockerfile))
  /\ RunUnchanged

\* a stage that uses the runtime is called and issues its first invocation
EnterStage ==
  /\ pc = "run" /\ setupRun.at[2] = "enter"
  /\ setupRun.at[1] \in {"docker", "build", "compile", "test"}
  /\ \E a \in Answers(setupRun.at[1], CommandOf(setupRun.at[1], FirstStep(setupRun.at[1]))) :
       setupRun' = Issue(setupRun, setupRun.at[1], FirstStep(setupRun.at[1]), a)
  /\ RunUnchanged

\* the child process of an invocation closes
ProcessCloses ==
  /\ pc = "run"
  /\ \E i \in InFlight(setupRun) :
       setupRun' = [setupRun EXCEPT !.issued[i].ended = TRUE]
  /\ RunUnchanged

Resumes(r) ==
  /\ r.at[2] \notin {"enter", "returned"}
  /\ LastIssued(r).ended \/ ~Awaits(LastIssued(r).command)

\* the awaited invocation has settled and the stage issues its next one
ResumeAndIssue ==
  /\ pc = "run" /\ Resumes(setupRun) /\ FollowUp(setupRun) # "return"
  /\ \E a \in Answers(setupRun.at[1], CommandOf(setupRun.at[1], FollowUp(setupRun))) :
       setupRun' = Issue(setupRun, setupRun.at[1], FollowUp(setupRun), a)
  /\ RunUnchanged

\* the awaited invocation has settled, the stage returns and its result is pushed
ResumeAndReturn ==
  /\ pc = "run" /\ Resumes(setupRun) /\ FollowUp(setupRun) = "return"
  /\ setupRun' = Pushed(setupRun, setupRun.at[1], StageReturn(setupRun, setupRun.at[1]))
  /\ RunUnchanged

ReturnRunReport ==
  /\ pc = "run" /\ setupRun.at = <<"summary", "enter">>
  /\ setupRun' = [setupRun EXCEPT
                    !.report = ValidationReport("DevContainerValidator", setupRun.results),
                    !.at = <<"done", "returned">>]
  /\ RunUnchanged

NextRun ==
  \/ RunFileStage \/ EnterStage \/ ProcessCloses \/ ResumeAndIssue \/ ResumeAndReturn
  \/ ReturnRunReport

SpecRun == InitRun /\ [][NextRun]_vars

----------------------------------------------------------------------------
(* Claims about the invocations of one validateSetup run, checked under    *)
(* SpecRun                                                                 *)

\* C22: within one validateSetup run at most one external process invocation
\* is in flight at any time, none is in flight when a stage's result is
\* appended, and every invocation of a stage starts after the result of the
\* stage before it was appended and before the result of its own stage.
C22_OneInvocationAtATime ==
  setupRun # None =>
    /\ Cardinality(InFlight(setupRun)) <= 1
    /\ setupRun.at[2] \in {"enter", "returned"} => InFlight(setupRun) = {}
    /\ \A i \in 1..Len(setupRun.issued) :
         LET inv == setupRun.issued[i]
             k == Len(inv.pushed)
         IN /\ k <= Len(setupRun.results)
            /\ inv.pushed = SubSeq(StageNames(setupRun.results), 1, k)
            /\ inv.stage \notin {inv.pushed[j] : j \in 1..k}
            /\ Len(setupRun.results) > k => setupRun.results[k + 1].stage = inv.stage

\* all six stages ran: the version probes, the build, the image queries and
\* both container runs were issued one after the other
C22_Witness ==
  /\ setupRun # None /\ setupRun.report # None
  /\ Len(setupRun.results) = 6
  /\ Len(setupRun.issued) >= 9
  /\ \A i \in 1..Len(setupRun.issued) : setupRun.issued[i].ended

----------------------------------------------------------------------------
(* Claims about severities, checked under Spec *)

\* the results that fail with errors none of which is critical
ErrorOnlyResults(rs) == {i \in 1..Len(rs) : ~rs[i].success /\ rs[i].errors # <<>> /\ ~HasCritical(rs[i])}

\* C23: in every report of validateSetup no result follows a result that
\* carries a critical error, and a config result whose errors are all of
\* severity error (a privileged port) is reported with that severity and does
\* not stop the stages that depend on the config alone.
C23_CriticalStopsDownstream ==
  SetupDone =>
    /\ \A i \in CriticalResults(report.results) : i = Len(report.results)
    /\ 1 \in ErrorOnlyResults(report.results) => HasStage(report.results, "dockerfile")

\* C24: the context of every 'docker build' the build stage issues is the
\* parent directory of the resolved build script when the config declares no
\* build context, and the declared build.context (resolved against the
\* project directory) when it declares one.
C24_ContextDefaultsToScriptDirectory ==
  setupRun # None =>
    \A i \in 1..Len(setupRun.issued) :
      setupRun.issued[i].command = "build"
        => setupRun.issued[i].args.context
             = IF setupRun.config.buildContext = <<>>
               THEN Dirname(setupRun.issued[i].args.file)
               ELSE Join(ProjectPath, setupRun.config.buildContext)

\* C25: once the compile stage ran its command, the stage's result holds
\* every stdout line with an error marker as an error and every other line
\* with a warning marker as a warning, for zero and non-zero exit alike, and
\* after a non-zero exit every non-blank stderr line as an error as well.
C25_CompileOutputClassified ==
  (setupRun # None /\ HasStage(setupRun.results, "compile")
     /\ StageAnswer(setupRun, "compile", "images").ok)
    => LET a == StageAnswer(setupRun, "compile", "run")
           r == setupRun.results[Min(StageAt(setupRun.results, "compile"))]
       IN /\ \A i \in 1..Len(a.stdout) :
               IsErrorLine(a.stdout[i])
                 => \E k \in 1..Len(r.errors) : r.errors[k].message = a.stdout[i]
          /\ Len(r.warnings) = Len(SelectSeq(a.stdout, IsWarningLine))
          /\ ~a.ok => Len(SelectSeq(r.errors, LAMBDA e : e.message = "stderr line"))
                        = a.stderrLines

----------------------------------------------------------------------------
(* The generate command.  A file of the project is "absent", holds what    *)
(* the "user" wrote, or holds "generated" content.                         *)

GeneratedFiles == {"devcontainer.json", "Dockerfile", "launch.json", "tasks.json", "settings.json"}

\* the files generateVSCodeConfig loops over
VSCodeFiles == {"launch.json", "tasks.json", "settings.json"}

GenerateOptions ==
  [force : BOOLEAN, devcontainerOnly : BOOLEAN, vscodeOnly : BOOLEAN, validate : BOOLEAN]

\* fs.access(path) does not throw
Accessible(fs, name) == fs[name] # "absent"

\* fs.writeFile(path, content)
WriteGenerated(fs, names) == [f \in GeneratedFiles |-> IF f \in names THEN "generated" ELSE fs[f]]

\* generateDevContainer; complex: projectInfo.totalLines >= 1000, the
\* project for which ComplexDevContainerGenerator is chosen
generateDevContainer(fs, complex, options) ==
  IF ~options.force /\ Accessible(fs, "devcontainer.json") THEN fs
  ELSE WriteGenerated(fs, {"devcontainer.json"} \cup (IF complex THEN {"Dockerfile"} ELSE {}))

\* generateVSCodeConfig: the loop over the three documents
generateVSCodeConfig(fs, options) ==
  WriteGenerated(fs, {f \in VSCodeFiles : options.force \/ ~Accessible(fs, f)})

InitGenerate ==
  /\ pc = "generate"
  /\ \E fs \in [GeneratedFiles -> {"absent", "user"}], options \in GenerateOptions,
        complex \in BOOLEAN :
       gen = [at |-> "devcontainer", options |-> options, complex |-> complex,
              before |-> fs, files |-> fs]
  /\ PipelineIdle /\ ParseIdle /\ PortIdle /\ CommandIdle /\ BuildIdle /\ RunIdle

GenerateUnchanged ==
  /\ UNCHANGED <<pc, setupRun>> /\ UNCHANGED pipelineVars
  /\ UNCHANGED <<output, parsed, port, portError>>
  /\ UNCHANGED commandVars /\ UNCHANGED buildVars

\* if (!options.vscodeOnly) await generateDevContainer(...)
DevContainerStep ==
  /\ pc = "generate" /\ gen.at = "devcontainer"
  /\ gen' = [gen EXCEPT !.at = "vscode",
                        !.files = IF gen.options.vscodeOnly THEN @
                                  ELSE generateDevContainer(@, gen.complex, gen.options)]
  /\ GenerateUnchanged

\* if (!options.devcontainerOnly) await generateVSCodeConfig(...)
VSCodeStep ==
  /\ pc = "generate" /\ gen.at = "vscode"
  /\ gen' = [gen EXCEPT !.at = IF gen.options.validate THEN "validate" ELSE "done",
                        !.files = IF gen.options.devcontainerOnly THEN @
                                  ELSE generateVSCodeConfig(@, gen.options)]
  /\ GenerateUnchanged

\* if (options.validate) await validateConfigurations(...): the validators
\* write none of the generated files
ValidateStep ==
  /\ pc = "generate" /\ gen.at = "validate"
  /\ gen' = [gen EXCEPT !.at = "done"]
  /\ GenerateUnchanged

NextGenerate == DevContainerStep \/ VSCodeStep \/ ValidateStep

SpecGenerate == InitGenerate /\ [][NextGenerate]_vars

\* C26: without --force the generate command leaves the content of every
\* file that existed before it unchanged, whichever of the five files
\* existed.
C26_GenerateKeepsExistingFiles ==
  (gen # None /\ ~gen.options.force)
    => \A f \in GeneratedFiles : gen.before[f] = "user" => gen.files[f] = "user"

----------------------------------------------------------------------------
(* Claims about the order of the results, checked under Spec *)

SetupStages == <<"config", "docker", "dockerfile", "build", "compile", "test">>

IntegrationStages == <<"directory", "launch", "tasks", "settings", "cross", "extensions">>

\* names lists stages of order without repetition and in the order of order
InStageOrder(names, order) ==
  names = SelectSeq(order, LAMBDA s : \E i \in 1..Len(names) : names[i] = s)

\* C27: the results of a validateSetup report are config, runtime
\* availability and then those of build-script inspection, build, compile and
\* test that ran, in this order, 2 to 6 in all; the results of a
\* testIntegration report are directory check, launch, tasks, settings,
\* cross-validation if it ran, extensions, 5 or 6 in all; no stage has two
\* results.
C27_ResultsInStageOrder ==
  /\ SetupDone =>
       LET names == StageNames(report.results)
       IN /\ InStageOrder(names, SetupStages)
          /\ Len(names) \in 2..6 /\ names[1] = "config" /\ names[2] = "docker"
  /\ IntegrationDone =>
       LET names == StageNames(report.results)
       IN /\ InStageOrder(names, IntegrationStages)
          /\ Len(names) \in 5..6
          /\ \A s \in {"directory", "launch", "tasks", "settings", "extensions"} :
               \E i \in 1..Len(names) : names[i] = s

\* a report of testIntegration without a cross-validation result
C27_Witness ==
  /\ IntegrationDone
  /\ StageNames(report.results) = <<"directory", "launch", "tasks", "settings", "extensions">>

----------------------------------------------------------------------------
(* Claims about the image the container stages use, checked under SpecRun *)

\* the invocations of a command a stage issued
IssuedBy(r, stage, command) ==
  {i \in 1..Len(r.issued) : r.issued[i].stage = stage /\ r.issued[i].command = command}

\* C28: buildContainer returns success only after the version probe
\* succeeded, the resolved build script existed, 'docker build' exited with 0
\* and a later image query for the tag was positive, and otherwise returns
\* success false with a non-empty errors list and no imageName; every
\* 'docker run' of runCompilation and runTests directly follows a positive
\* image query for the tag by the same call.
C28_SuccessNeedsVerifiedImage ==
  setupRun # None =>
    /\ setupRun.buildResult # None =>
         IF setupRun.buildResult.success
         THEN /\ StageAnswer(setupRun, "build", "--version").ok
              /\ ReferencesDockerfile(setupRun.config) => setupRun.dockerfile.exists
              /\ StageAnswer(setupRun, "build", "build").ok
              /\ \E i \in IssuedBy(setupRun, "build", "build") :
                   \E j \in IssuedBy(setupRun, "build", "images") :
                     /\ i < j /\ setupRun.issued[j].answer.ok
                     /\ setupRun.issued[j].args.tag = setupRun.issued[i].args.tag
              /\ setupRun.buildResult.imageName
         ELSE /\ Len(setupRun.buildResult.errors) > 0
              /\ ~setupRun.buildResult.imageName
    /\ \A i \in 1..Len(setupRun.issued) :
         setupRun.issued[i].command = "run"
           => /\ i > 1
              /\ setupRun.issued[i - 1].command = "images"
              /\ setupRun.issued[i - 1].stage = setupRun.issued[i].stage
              /\ setupRun.issued[i - 1].args.tag = setupRun.issued[i].args.tag
              /\ setupRun.issued[i - 1].ended /\ setupRun.issued[i - 1].answer.ok

\* the build succeeded and the compile command ran; the image query of
\* runTests was negative and runTests issued no 'docker run'
C28_Witness ==
  /\ setupRun # None /\ setupRun.report # None
  /\ setupRun.buildResult # None /\ setupRun.buildResult.success
  /\ IssuedBy(setupRun, "compile", "run") # {}
  /\ \E i \in IssuedBy(setupRun, "test", "images") : ~setupRun.issued[i].answer.ok
  /\ IssuedBy(setupRun, "test", "run") = {}
  /\ ~setupRun.testResult.success

----------------------------------------------------------------------------
(* Claims about the warnings of successful results, checked under Spec *)

RECURSIVE FailedWarnings(_)
FailedWarnings(rs) ==
  IF rs = <<>> THEN 0
  ELSE (IF Head(rs).success THEN 0 ELSE Len(Head(rs).warnings)) + FailedWarnings(Tail(rs))

----------------------------------------------------------------------------
(* Claims about the settling of runDockerCommand, checked under SpecCommand *)

\* 'close' or 'error' has been delivered to its listener
EndDelivered(p) ==
  p # None /\ \E k \in 1..Len(p.delivered) : p.delivered[k] \in {"close", "error"}

\* C30: an invocation of runDockerCommand is settled by the first 'close' or
\* 'error' delivered and by nothing else: the result is unset before it, a
\* first 'close' gives the trimmed output accumulated so far with the status
\* it carries, a first 'error' gives its message with exitCode -1, and no
\* later event changes the result.
C30_FirstEventSettles ==
  [][/\ (commandResult # None) = EndDelivered(proc)
     /\ commandResult # None => commandResult' = commandResult
     /\ (commandResult = None /\ NextEvent("data")) => commandResult' = None
     /\ (commandResult = None /\ NextEvent("close"))
          => commandResult' = [success |-> IsZero(Head(proc.events).code),
                               stdout |-> Trim(proc.stdout), stderr |-> Trim(proc.stderr),
                               exitCode |-> OrZero(Head(proc.events).code)]
     /\ (commandResult = None /\ NextEvent("error"))
          => commandResult' = [success |-> FALSE, stdout |-> <<>>,
                               stderr |-> Head(proc.events).message, exitCode |-> -1]
    ]_vars

\* 'close' then 'error' were both delivered and the value of 'close' was kept
C30_Witness ==
  /\ proc # None /\ proc.delivered = <<"close", "error">>
  /\ commandResult = [success |-> FALSE, stdout |-> <<>>, stderr |-> <<>>, exitCode |-> -2]

====
